---------------------------- MODULE Spec2Model ----------------------------
(***************************************************************************)
(* lighthouse-rs: discovery, classification, caching and command dispatch  *)
(* for SteamVR Lighthouse base stations over Bluetooth Low Energy.         *)
(*                                                                         *)
(* Strings of the program are sequences of one-character strings, so that  *)
(* prefix tests, JSON escaping and JSON parsing are computed, not assumed. *)
(***************************************************************************)
EXTENDS Integers, Sequences, FiniteSets, TLC

(***************************************************************************)
(* Bounds of the model.                                                    *)
(***************************************************************************)
\* Largest number of peripherals one scan lists.
MaxScan == 2
\* Largest number of records in a device list drawn for the cache round trip.
MaxList == 2
MaxChars == 3

(***************************************************************************)
(* Program constants.                                                      *)
(***************************************************************************)
LHB_PREFIX == <<"L", "H", "B">>
LIGHTHOUSE_MANUFACTURER_ID == 1373
STANDBY_COMMAND == 0
POWERON_COMMAND == 1
\* 0xFF: "no command", scan and save only.
NO_COMMAND == 255

EXIT_SUCCESS == 0
EXIT_GENERAL_ERROR == 1
EXIT_BLUETOOTH_ERROR == 2
EXIT_NO_DEVICES_FOUND == 3
EXIT_COMMAND_FAILED == 4
EXIT_STEAMVR_ERROR == 5

\* The sentinel name of peripheral_to_device_info and process_scan_results.
Unknown == <<"U", "n", "k", "n", "o", "w", "n">>

(***************************************************************************)
(* String helpers.                                                         *)
(***************************************************************************)
\* str::starts_with
StartsWith(s, prefix) ==
    /\ Len(s) >= Len(prefix)
    /\ SubSeq(s, 1, Len(prefix)) = prefix

RECURSIVE Concat(_)
\* Concatenation of a sequence of strings.
Concat(ss) == IF ss = <<>> THEN <<>> ELSE Head(ss) \o Concat(Tail(ss))

(***************************************************************************)
(* Option<T> is a sequence of at most one element: <<>> is None and <<x>>  *)
(* is Some(x).                                                             *)
(***************************************************************************)
None == <<>>
Some(x) == <<x>>

(***************************************************************************)
(* DeviceClassifier: the two classification sites.                         *)
(* PeripheralProperties is a record                                        *)
(*   [local_name |-> Option<String>,                                       *)
(*    manufacturer_data |-> a set of entries [id |-> u16, data |-> bytes]] *)
(* (a HashMap: at most one entry per id).  peripheral.properties() gives   *)
(* [ok |-> BOOLEAN, props |-> Option<PeripheralProperties>].               *)
(***************************************************************************)
\* scanning.rs: name as process_scan_results_with_json and
\* peripheral_to_device_info compute it from Option<PeripheralProperties>.
ScanName(props) ==
    IF props = None \/ props[1].local_name = None THEN Unknown
    ELSE props[1].local_name[1]

\* A classification that accepts any manufacturer id.
ClassifyScanAnyId(props) ==
    /\ props # None
    /\ props[1].manufacturer_data # {}
    /\ StartsWith(ScanName(props), LHB_PREFIX)

\* scanning.rs: is_lighthouse of process_scan_results_with_json, from the
\* properties it read with `?` (an Err aborts before classification).
ClassifyScan(props) ==
    /\ props # None
    /\ \E e \in props[1].manufacturer_data :
          StartsWith(ScanName(props), LHB_PREFIX) /\ e.id = LIGHTHOUSE_MANUFACTURER_ID

\* device_control.rs: name of the power-event functions (unwrap_or_default).
PowerName(props) ==
    IF props[1].local_name = None THEN <<>> ELSE props[1].local_name[1]

\* device_control.rs: is_lighthouse of power_on/standby_lighthouses_with_json,
\* given the result of peripheral.properties() (if let Ok(Some(properties))).
ClassifyPower(res) ==
    /\ res.ok
    /\ res.props # None
    /\ StartsWith(PowerName(res.props), LHB_PREFIX)
    /\ \E e \in res.props[1].manufacturer_data : e.id = LIGHTHOUSE_MANUFACTURER_ID

(***************************************************************************)
(* DeviceCache: the JSON text of a device list, as serde_json writes and   *)
(* reads it.                                                               *)
(***************************************************************************)
QUOTE == "\""
BACKSLASH == "\\"
NEWLINE == "\n"

\* An escape that leaves every character as it is.
EscapeCharPlain(c) == <<c>>

\* serde_json's escape of one character of a string.
EscapeChar(c) ==
    IF c = QUOTE THEN <<BACKSLASH, QUOTE>>
    ELSE IF c = BACKSLASH THEN <<BACKSLASH, BACKSLASH>>
    ELSE IF c = NEWLINE THEN <<BACKSLASH, "n">>
    ELSE IF c = "\t" THEN <<BACKSLASH, "t">>
    ELSE IF c = "\r" THEN <<BACKSLASH, "r">>
    ELSE <<c>>

RECURSIVE EscapeStr(_)
EscapeStr(s) == IF s = <<>> THEN <<>> ELSE EscapeChar(Head(s)) \o EscapeStr(Tail(s))

\* A JSON string literal.
JsonString(s) == <<QUOTE>> \o EscapeStr(s) \o <<QUOTE>>

KEY_NAME == <<"n", "a", "m", "e">>
KEY_ADDRESS == <<"a", "d", "d", "r", "e", "s", "s">>

\* One DeviceInfo, pretty-printed at indent 1 (derive(Serialize): name, address).
JsonDevice(d) ==
    Concat(<< <<" ", " ", "{", NEWLINE>>,
              <<" ", " ", " ", " ">>, JsonString(KEY_NAME), <<":", " ">>,
              JsonString(d.name), <<",", NEWLINE>>,
              <<" ", " ", " ", " ">>, JsonString(KEY_ADDRESS), <<":", " ">>,
              JsonString(d.address), <<NEWLINE>>,
              <<" ", " ", "}">> >>)

RECURSIVE JsonDevices(_)
JsonDevices(ds) ==
    IF Len(ds) = 1 THEN JsonDevice(ds[1])
    ELSE JsonDevice(Head(ds)) \o <<",", NEWLINE>> \o JsonDevices(Tail(ds))

\* serde_json::to_string_pretty(devices)
ToStringPretty(ds) ==
    IF ds = <<>> THEN <<"[", "]">>
    ELSE <<"[", NEWLINE>> \o JsonDevices(ds) \o <<NEWLINE, "]">>

IsWhitespace(c) == c \in {" ", NEWLINE, "\t", "\r"}

\* Result<T, E> of the program: Ok(v) or Err.
Ok(v) == [ok |-> TRUE, val |-> v]
Err == [ok |-> FALSE, val |-> <<>>]

\* A JSON token: a punctuation mark, a decoded string, or "bad".
Token(k, v) == [kind |-> k, val |-> v]

\* The character a JSON escape \c stands for (<<>>: none).
Unescape(c) ==
    IF c \in {QUOTE, BACKSLASH, "/"} THEN <<c>>
    ELSE IF c = "n" THEN <<NEWLINE>>
    ELSE IF c = "t" THEN <<"\t">>
    ELSE IF c = "r" THEN <<"\r">>
    ELSE <<>>

\* The first position at or after i that holds no JSON whitespace.
SkipWs(s, i) ==
    CHOOSE j \in i..(Len(s) + 1) :
        /\ j = Len(s) + 1 \/ ~IsWhitespace(s[j])
        /\ \A k \in i..(j - 1) : IsWhitespace(s[k])

RECURSIVE ReadString(_, _, _)
\* A JSON string from position i, just after its opening quote:
\* [ok, pos (after the closing quote), val (the decoded characters)].
ReadString(s, i, acc) ==
    IF i > Len(s) THEN [ok |-> FALSE, pos |-> i, val |-> acc]
    ELSE IF s[i] = QUOTE THEN [ok |-> TRUE, pos |-> i + 1, val |-> acc]
    ELSE IF s[i] = BACKSLASH THEN
        IF i + 1 > Len(s) \/ Unescape(s[i + 1]) = <<>>
        THEN [ok |-> FALSE, pos |-> i, val |-> acc]
        ELSE ReadString(s, i + 2, acc \o Unescape(s[i + 1]))
    ELSE IF s[i] \in {NEWLINE, "\t", "\r"} THEN [ok |-> FALSE, pos |-> i, val |-> acc]
    ELSE ReadString(s, i + 1, Append(acc, s[i]))

RECURSIVE Lex(_, _, _)
\* The tokens of the text s from position i.  A text that is no JSON of
\* strings, objects and arrays ends in a "bad" token.
Lex(s, i, toks) ==
    LET j == SkipWs(s, i)
        str == ReadString(s, j + 1, <<>>)
    IN  IF j > Len(s) THEN toks
        ELSE IF s[j] = QUOTE THEN
            IF str.ok THEN Lex(s, str.pos, Append(toks, Token("str", str.val)))
            ELSE Append(toks, Token("bad", <<>>))
        ELSE IF s[j] \in {"[", "]", "{", "}", ":", ","}
        THEN Lex(s, j + 1, Append(toks, Token(s[j], <<>>)))
        ELSE Append(toks, Token("bad", <<>>))

\* derive(Deserialize) for DeviceInfo: each of name and address exactly once
\* among the members read (missing field, duplicate field: errors); other
\* keys are ignored.
FieldsOk(fields) ==
    /\ Cardinality({j \in 1..Len(fields) : fields[j].key = KEY_NAME}) = 1
    /\ Cardinality({j \in 1..Len(fields) : fields[j].key = KEY_ADDRESS}) = 1

DeviceOf(fields) ==
    [name |-> fields[CHOOSE j \in 1..Len(fields) : fields[j].key = KEY_NAME].val,
     address |-> fields[CHOOSE j \in 1..Len(fields) : fields[j].key = KEY_ADDRESS].val]

RECURSIVE ParseTokens(_, _, _, _, _)
\* Vec<DeviceInfo> from the tokens at position i: an array of objects whose
\* members are strings.  st is the place in the grammar, fields the members
\* of the object being read, devs the devices read.
ParseTokens(toks, i, st, fields, devs) ==
    LET t == IF i <= Len(toks) THEN toks[i] ELSE Token("eof", <<>>)
    IN  CASE st = "array" ->
               IF t.kind = "[" THEN ParseTokens(toks, i + 1, "first", <<>>, devs) ELSE Err
          [] st = "first" ->
               IF t.kind = "]" THEN ParseTokens(toks, i + 1, "end", <<>>, devs)
               ELSE IF t.kind = "{" THEN ParseTokens(toks, i + 1, "key", <<>>, devs)
               ELSE Err
          [] st = "element" ->
               IF t.kind = "{" THEN ParseTokens(toks, i + 1, "key", <<>>, devs) ELSE Err
          [] st = "key" ->
               IF t.kind = "str"
               THEN ParseTokens(toks, i + 1, "colon",
                                Append(fields, [key |-> t.val, val |-> <<>>]), devs)
               ELSE Err
          [] st = "colon" ->
               IF t.kind = ":" THEN ParseTokens(toks, i + 1, "value", fields, devs) ELSE Err
          [] st = "value" ->
               IF t.kind = "str"
               THEN ParseTokens(toks, i + 1, "member_end",
                                [fields EXCEPT ![Len(fields)].val = t.val], devs)
               ELSE Err
          [] st = "member_end" ->
               IF t.kind = "," THEN ParseTokens(toks, i + 1, "key", fields, devs)
               ELSE IF t.kind = "}" /\ FieldsOk(fields)
               THEN ParseTokens(toks, i + 1, "element_end", <<>>,
                                Append(devs, DeviceOf(fields)))
               ELSE Err
          [] st = "element_end" ->
               IF t.kind = "," THEN ParseTokens(toks, i + 1, "element", <<>>, devs)
               ELSE IF t.kind = "]" THEN ParseTokens(toks, i + 1, "end", <<>>, devs)
               ELSE Err
          [] st = "end" ->
               IF t.kind = "eof" THEN Ok(devs) ELSE Err

\* serde_json::from_str::<Vec<DeviceInfo>>(contents): Ok(devices) or Err.
FromStr(s) == ParseTokens(Lex(s, 1, <<>>), 1, "array", <<>>, <<>>)

(***************************************************************************)
(* The cache file: [exists |-> BOOLEAN, text |-> its characters].  The     *)
(* outcome of the platform calls of one save or load is an input.          *)
(***************************************************************************)
NoFile == [exists |-> FALSE, text |-> <<>>]

SaveOutcomes == {"ok", "path_err", "create_err", "write_err"}
LoadOutcomes == {"ok", "path_err", "read_err"}

\* A save that keeps the records the file already holds.
SaveFileKeepOld(f, devices, outcome) ==
    IF outcome \in {"path_err", "create_err"} THEN f
    ELSE IF outcome = "write_err" THEN [exists |-> TRUE, text |-> <<>>]
    ELSE [exists |-> TRUE,
          text |-> ToStringPretty(
                      (IF f.exists /\ FromStr(f.text).ok
                       THEN FromStr(f.text).val ELSE <<>>) \o devices)]

\* config/mod.rs save_devices_with_json: the file after the call.
\* get_config_path()? and File::create()? fail before the file is touched;
\* File::create truncates, so a failing write_all leaves the file cut short
\* (here: empty).
SaveFile(f, devices, outcome) ==
    IF outcome \in {"path_err", "create_err"} THEN f
    ELSE IF outcome = "write_err" THEN [exists |-> TRUE, text |-> <<>>]
    ELSE [exists |-> TRUE, text |-> ToStringPretty(devices)]

\* config/mod.rs save_devices_with_json: Ok(()) or Err.
SaveOk(outcome) == outcome = "ok"

\* A load that opens the file without asking whether it exists.
LoadDevicesOpenFirst(f, outcome) ==
    IF outcome = "path_err" \/ ~f.exists \/ outcome = "read_err" THEN Err
    ELSE FromStr(f.text)

\* config/mod.rs load_devices_with_json: [ok, val], Ok(devices) or Err.
LoadDevices(f, outcome) ==
    IF outcome = "path_err" THEN Err
    ELSE IF ~f.exists THEN Ok(<<>>)
    ELSE IF outcome = "read_err" THEN Err
    ELSE FromStr(f.text)

\* load_devices().unwrap_or_default()
UnwrapOrDefault(res) == IF res.ok THEN res.val ELSE <<>>

(***************************************************************************)
(* CommandDispatcher: the choice of the characteristic to write.           *)
(* A service is [uuid, characteristics]; a characteristic is               *)
(* [uuid, properties], properties a set of CharPropFlags.                  *)
(***************************************************************************)
LIGHTHOUSE_SERVICE_UUID == "00001523-1212-efde-1523-785feabcd124"
LIGHTHOUSE_CHAR_UUID == "00001525-1212-efde-1523-785feabcd124"

\* A characteristic counts only when it can be written.
UsableWritable(ch) ==
    \/ "WRITE" \in ch.properties
    \/ "WRITE_WITHOUT_RESPONSE" \in ch.properties

\* device_control.rs:91-95: the characteristic is the target or can be written.
Usable(ch) ==
    \/ ch.uuid = LIGHTHOUSE_CHAR_UUID
    \/ "WRITE" \in ch.properties
    \/ "WRITE_WITHOUT_RESPONSE" \in ch.properties

RECURSIVE ScanCharacteristics(_, _, _)
\* device_control.rs:80-108: the inner loop over one service's
\* characteristics from position i; target is the Option kept so far.
ScanCharacteristics(chars, i, target) ==
    IF i > Len(chars) THEN target
    ELSE IF Usable(chars[i]) THEN
        IF chars[i].uuid = LIGHTHOUSE_CHAR_UUID THEN Some(chars[i])
        ELSE ScanCharacteristics(chars, i + 1, Some(chars[i]))
    ELSE ScanCharacteristics(chars, i + 1, target)

RECURSIVE ScanServicesFirstFound(_, _, _)
\* The outer loop when it looks no further once a characteristic is kept.
ScanServicesFirstFound(services, i, target) ==
    IF i > Len(services) THEN target
    ELSE IF target = None THEN
        ScanServicesFirstFound(services, i + 1,
            ScanCharacteristics(services[i].characteristics, 1, target))
    ELSE target

RECURSIVE ScanServices(_, _, _)
\* device_control.rs:74-115: the outer loop over the services from position i.
ScanServices(services, i, target) ==
    IF i > Len(services) THEN target
    ELSE IF services[i].uuid = LIGHTHOUSE_SERVICE_UUID \/ target = None THEN
        LET t == ScanCharacteristics(services[i].characteristics, 1, target)
        IN  IF t # None /\ services[i].uuid = LIGHTHOUSE_SERVICE_UUID THEN t
            ELSE ScanServices(services, i + 1, t)
    ELSE ScanServices(services, i + 1, target)

\* device_control.rs:71-115: target_char after both loops.
TargetChar(services) == ScanServices(services, 1, None)

(***************************************************************************)
(* The peripherals on the air.  A Peripheral handle is its name here; the  *)
(* platform answers address(), properties() and services() for it.         *)
(***************************************************************************)
Peripherals == {"p1", "p2", "p3", "p4"}

Name1 == <<"L", "H", "B", "-", "1">>
Name2 == <<"L", "H", "B", "-", "2">>
Name3 == <<"T", "V">>
Name4 == <<"L", "H", "B", "-", "4">>
Addr1 == <<"A", "1">>
Addr2 == <<"A", "2">>
Addr3 == <<"A", "3">>

\* peripheral.address().to_string().  The platform, not this program, decides
\* whether two handles of one scan report one address: p1 and p4 do.
PeripheralAddress(p) ==
    CASE p = "p1" -> Addr1 [] p = "p2" -> Addr2 [] p = "p3" -> Addr3 [] p = "p4" -> Addr1

\* peripheral.properties(): Option<PeripheralProperties>.
PeripheralProperties(p) ==
    CASE p = "p1" -> Some([local_name |-> Some(Name1),
                           manufacturer_data |-> {[id |-> 1373, data |-> <<0>>]}])
      [] p = "p2" -> Some([local_name |-> Some(Name2),
                           manufacturer_data |-> {[id |-> 1373, data |-> <<1>>],
                                                  [id |-> 76, data |-> <<2>>]}])
      [] p = "p3" -> Some([local_name |-> Some(Name3),
                           manufacturer_data |-> {[id |-> 76, data |-> <<0>>]}])
      [] p = "p4" -> Some([local_name |-> Some(Name4),
                           manufacturer_data |-> {[id |-> 1373, data |-> <<0>>]}])

\* peripheral.services() after discover_services().
PeripheralServices(p) ==
    CASE p = "p1" -> << [uuid |-> LIGHTHOUSE_SERVICE_UUID,
                         characteristics |->
                            << [uuid |-> "00001524", properties |-> {"READ"}],
                               [uuid |-> LIGHTHOUSE_CHAR_UUID,
                                properties |-> {"WRITE", "WRITE_WITHOUT_RESPONSE"}] >>] >>
      [] p = "p2" -> << [uuid |-> "00001800",
                         characteristics |->
                            << [uuid |-> "00002a00", properties |-> {"READ"}] >>] >>
      [] p = "p3" -> << [uuid |-> "0000180f",
                         characteristics |->
                            << [uuid |-> "00002a19", properties |-> {"WRITE"}] >>] >>
      [] p = "p4" -> << [uuid |-> "00001800",
                         characteristics |->
                            << [uuid |-> "00002a00", properties |-> {"READ"}],
                               [uuid |-> "00002a01",
                                properties |-> {"WRITE_WITHOUT_RESPONSE"}] >>] >>

\* scanning.rs peripheral_to_device_info: the DeviceInfo of a handle.
PeripheralToDeviceInfo(p) ==
    [name |-> ScanName(PeripheralProperties(p)), address |-> PeripheralAddress(p)]

\* Sequences over S of length at most n.
SeqsUpTo(S, n) == UNION {[1..k -> S] : k \in 0..n}

\* What adapter.peripherals() can return: distinct handles, in any order.
ScanLists ==
    {l \in SeqsUpTo(Peripherals, MaxScan) :
        \A i, j \in 1..Len(l) : i # j => l[i] # l[j]}

\* The range of a sequence.
Range(l) == {l[i] : i \in 1..Len(l)}

(***************************************************************************)
(* The state.                                                              *)
(***************************************************************************)
VARIABLES
    file,         \* the cache file; it outlives an invocation
    pc,           \* the place of the running operation in the code
    mode,         \* the frontend handler that runs
    pipe,         \* the scan path taken: "cached", "fresh" or "power"
    json,         \* json_output
    command,      \* command_mode
    cached,       \* cached_devices of handle_device_command_mode
    peripherals,  \* the Vec<Peripheral> the latest scan returned
    listed,       \* adapter.peripherals() has returned in this invocation
    scanning,     \* start_scan was called and stop_scan has not succeeded
    targets,      \* the devices of the batch (lighthouse_devices / stations)
    idx,          \* the batch loop's position, from 1
    chosen,       \* target_char of the send in progress
    connected,    \* the peripherals this invocation holds a connection to
    infoList,     \* device_info_list
    ret,          \* what the scan function returned: [ok, val]
    sendLog,      \* per send attempt of this invocation: [p, outcome]
    writes,       \* per peripheral.write() call: [p, char, bytes]
    results,      \* the CommandResponse records printed
    exitCode,     \* the process exit code (-1: still running, or no process exit)
    prompts,      \* read_line calls on stdin
    scans,        \* start_scan calls
    saves,        \* File::create calls on the cache file
    file0,        \* the cache file when the invocation started
    pure          \* the state of the specifications of the pure functions

ioVars == <<results, exitCode, prompts>>
scanVars == <<peripherals, listed, scanning, scans>>
batchVars == <<targets, idx, chosen, connected, sendLog, writes>>
ctlVars == <<mode, pipe, json, command>>
vars == <<file, pc, mode, pipe, json, command, cached, peripherals, listed,
          scanning, targets, idx, chosen, connected, infoList, ret, sendLog,
          writes, results, exitCode, prompts, scans, saves, file0, pure>>

\* Everything but the cache file and the state of the pure specifications.
runVars == <<pc, mode, pipe, json, command, cached, peripherals, listed,
             scanning, targets, idx, chosen, connected, infoList, ret, sendLog,
             writes, results, exitCode, prompts, scans, saves, file0>>

NoPure == [spec |-> "main"]

\* No invocation has run yet.
NotStarted ==
    /\ pc = "idle"
    /\ mode = "none"
    /\ pipe = "none"
    /\ json = FALSE
    /\ command = NO_COMMAND
    /\ cached = <<>>
    /\ peripherals = <<>>
    /\ listed = FALSE
    /\ scanning = FALSE
    /\ targets = <<>>
    /\ idx = 0
    /\ chosen = None
    /\ connected = {}
    /\ infoList = <<>>
    /\ ret = Ok(<<>>)
    /\ sendLog = <<>>
    /\ writes = <<>>
    /\ results = <<>>
    /\ exitCode = -1
    /\ prompts = 0
    /\ scans = 0
    /\ saves = 0
    /\ file0 = NoFile

Init ==
    /\ file = NoFile
    /\ NotStarted
    /\ pure = NoPure

(***************************************************************************)
(* The Result contract.                                                    *)
(***************************************************************************)
\* A success response that carries the general error code.
ResponseSuccessWithCode(devices) ==
    [success |-> TRUE, devices |-> devices, error_code |-> EXIT_GENERAL_ERROR]

\* response.rs CommandResponse::success
ResponseSuccess(devices) ==
    [success |-> TRUE, devices |-> devices, error_code |-> EXIT_SUCCESS]

\* An error response that keeps success = true.
ResponseErrorAsSuccess(code) ==
    [success |-> TRUE, devices |-> <<>>, error_code |-> code]

\* response.rs CommandResponse::error
ResponseError(code) ==
    [success |-> FALSE, devices |-> <<>>, error_code |-> code]

\* println!("{}", serde_json::to_string(&response)?) under `if json_output`.
PrintIfJson(response) ==
    results' = IF json THEN Append(results, response) ELSE results

\* process::exit(code), or main returning: Ok(()) is 0 and Err is 1.
Exit(code) == exitCode' = code /\ pc' = "done"

\* The start of an operation: nothing of the previous one is kept but the file.
Begin(m, pp, js, cmd) ==
    /\ pc \in {"idle", "done"}
    /\ mode' = m
    /\ json' = js
    /\ command' = cmd
    /\ pipe' = pp
    /\ cached' = <<>>
    /\ peripherals' = <<>>
    /\ listed' = FALSE
    /\ scanning' = FALSE
    /\ targets' = <<>>
    /\ idx' = 0
    /\ chosen' = None
    /\ connected' = {}
    /\ infoList' = <<>>
    /\ ret' = Ok(<<>>)
    /\ sendLog' = <<>>
    /\ writes' = <<>>
    /\ results' = <<>>
    /\ exitCode' = -1
    /\ prompts' = 0
    /\ scans' = 0
    /\ saves' = 0
    /\ file0' = file
    /\ UNCHANGED <<file, pure>>

\* The first four platform calls of every scan path: Manager::new(),
\* manager.adapters(), adapters.is_empty(), adapter.adapter_info().
AcquireOutcomes == {"ok", "manager_err", "adapters_err", "no_adapter", "info_err"}

(***************************************************************************)
(* main: the mode handlers of the CLI.                                     *)
(***************************************************************************)
\* The command when --standby takes precedence over --poweron.
CommandModeStandbyFirst(poweron_mode, standby_mode) ==
    IF standby_mode THEN STANDBY_COMMAND
    ELSE IF poweron_mode THEN POWERON_COMMAND
    ELSE NO_COMMAND

\* main.rs:124-130: command_mode from the two flags.
CommandMode(poweron_mode, standby_mode) ==
    IF poweron_mode THEN POWERON_COMMAND
    ELSE IF standby_mode THEN STANDBY_COMMAND
    ELSE NO_COMMAND

\* main.rs:113-134: --poweron and/or --standby; without either there is
\* nothing to do.
StartCommand(poweron_mode, standby_mode, js) ==
    /\ CommandMode(poweron_mode, standby_mode) # NO_COMMAND
    /\ Begin("command", "none", js, CommandMode(poweron_mode, standby_mode))
    /\ pc' = "cmd_load"

\* main.rs:68-72: --devices.
StartDevices(js) ==
    /\ Begin("devices", "none", js, NO_COMMAND)
    /\ pc' = "dev_load"

\* main.rs:104-111 and 307-308: --scan.
StartScan(js) ==
    /\ Begin("scan", "fresh", js, NO_COMMAND)
    /\ pc' = "scan_acquire"

\* main.rs:86-102: --steamvr-started (power on) / --steamvr-stopped (standby).
StartSteamvr(cmd, js) ==
    /\ Begin("steamvr", "power", js, cmd)
    /\ pc' = "power_acquire"

(***************************************************************************)
(* handle_device_command_mode: the cached path.                            *)
(***************************************************************************)
\* The cache file after load_devices: a load reads; get_config_path creates
\* the directory, never the file.
LoadFile(f, outcome) == f

\* A dispatch to every peripheral of the scan.
IntersectionAll(peris, cache) == peris

\* A dispatch to the handles of the cached addresses, seen or not.
IntersectionFromCache(peris, cache) ==
    SelectSeq(<<"p1", "p2", "p3", "p4">>,
              LAMBDA p : \E i \in 1..Len(cache) :
                            cache[i].address = PeripheralAddress(p))

RECURSIVE IntersectionCacheOrder(_, _)
\* A dispatch in the order of the cache's records.
IntersectionCacheOrder(peris, cache) ==
    IF cache = <<>> THEN <<>>
    ELSE SelectSeq(peris, LAMBDA p : Head(cache).address = PeripheralAddress(p)
                                         /\ \A i \in 2..Len(cache) :
                                                cache[i].address # PeripheralAddress(p))
         \o IntersectionCacheOrder(peris, Tail(cache))

\* An intersection that stops at the first scanned peripheral it finds cached.
IntersectionFirst(peris, cache) ==
    LET all == SelectSeq(peris, LAMBDA p : \E i \in 1..Len(cache) :
                                              cache[i].address = PeripheralAddress(p))
    IN  IF all = <<>> THEN <<>> ELSE <<Head(all)>>

\* main.rs:468-479: the peripherals of the scan whose address is cached.
Intersection(peris, cache) ==
    SelectSeq(peris, LAMBDA p : \E i \in 1..Len(cache) :
                                   cache[i].address = PeripheralAddress(p))

\* main.rs:339-355 and 588-593: load_devices(), and the choice of the path.
CmdLoad(outcome) ==
    /\ pc = "cmd_load"
    /\ LET r == LoadDevices(file, outcome)
       IN  IF ~r.ok
           THEN /\ PrintIfJson(ResponseError(EXIT_GENERAL_ERROR))
                /\ Exit(EXIT_GENERAL_ERROR)
                /\ UNCHANGED <<cached, pipe>>
           ELSE /\ cached' = r.val
                /\ pipe' = IF r.val # <<>> THEN "cached" ELSE "fresh"
                /\ pc' = IF r.val # <<>> THEN "cmd_acquire" ELSE "scan_acquire"
                /\ UNCHANGED <<results, exitCode>>
    /\ file' = LoadFile(file, outcome)
    /\ UNCHANGED <<mode, json, command, scanVars, batchVars, infoList, ret,
                   prompts, saves, file0, pure>>

\* main.rs:374-421: the adapter.  adapter_info().await? returns the Err to
\* main, which prints nothing as JSON and ends with status 1.
CmdAcquire(outcome) ==
    /\ pc = "cmd_acquire"
    /\ IF outcome = "ok"
       THEN pc' = "cmd_start_scan" /\ UNCHANGED <<results, exitCode>>
       ELSE IF outcome = "info_err"
       THEN Exit(EXIT_GENERAL_ERROR) /\ UNCHANGED results
       ELSE PrintIfJson(ResponseError(EXIT_BLUETOOTH_ERROR)) /\ Exit(EXIT_BLUETOOTH_ERROR)
    /\ UNCHANGED <<file, ctlVars, cached, scanVars, batchVars, infoList, ret,
                   prompts, saves, file0, pure>>

\* main.rs:424-440: adapter.start_scan and the 5 s sleep.
CmdStartScan(ok) ==
    /\ pc = "cmd_start_scan"
    /\ scans' = scans + 1
    /\ IF ok
       THEN scanning' = TRUE /\ pc' = "cmd_peripherals" /\ UNCHANGED <<results, exitCode>>
       ELSE /\ PrintIfJson(ResponseError(EXIT_BLUETOOTH_ERROR))
            /\ Exit(EXIT_BLUETOOTH_ERROR)
            /\ UNCHANGED scanning
    /\ UNCHANGED <<file, ctlVars, cached, peripherals, listed, batchVars, infoList,
                   ret, prompts, saves, file0, pure>>

\* main.rs:442-456: adapter.peripherals().
CmdPeripherals(ok, list) ==
    /\ pc = "cmd_peripherals"
    /\ IF ok
       THEN /\ peripherals' = list
            /\ listed' = TRUE
            /\ pc' = "cmd_stop_scan"
            /\ UNCHANGED <<results, exitCode>>
       ELSE /\ PrintIfJson(ResponseError(EXIT_BLUETOOTH_ERROR))
            /\ Exit(EXIT_BLUETOOTH_ERROR)
            /\ UNCHANGED <<peripherals, listed>>
    /\ UNCHANGED <<file, ctlVars, cached, scanning, scans, batchVars, infoList,
                   ret, prompts, saves, file0, pure>>

\* main.rs:458-466: adapter.stop_scan(); a failure is a warning.
CmdStopScan(ok) ==
    /\ pc = "cmd_stop_scan"
    /\ scanning' = IF ok THEN FALSE ELSE scanning
    /\ pc' = "cmd_reconcile"
    /\ UNCHANGED <<file, ctlVars, cached, peripherals, listed, scans, batchVars,
                   infoList, ret, ioVars, saves, file0, pure>>

\* A reconciliation that asks the operator under --json as well.
CmdReconcilePromptAlways ==
    /\ pc = "cmd_reconcile"
    /\ LET found == Intersection(peripherals, cached)
       IN  /\ targets' = found
           /\ idx' = IF found = <<>> THEN idx ELSE 1
           /\ pc' = IF found = <<>> THEN "cmd_prompt" ELSE "send_begin"
    /\ UNCHANGED <<file, ctlVars, cached, scanVars, chosen, connected, sendLog,
                   writes, infoList, ret, results, exitCode, prompts, saves,
                   file0, pure>>

\* main.rs:468-498 and 539-549: the intersection and the three ways on.
CmdReconcile ==
    /\ pc = "cmd_reconcile"
    /\ LET found == Intersection(peripherals, cached)
       IN  /\ targets' = found
           /\ IF found = <<>>
              THEN /\ idx' = idx
                   /\ IF json
                      THEN /\ PrintIfJson(ResponseError(EXIT_NO_DEVICES_FOUND))
                           /\ Exit(EXIT_NO_DEVICES_FOUND)
                      ELSE pc' = "cmd_prompt" /\ UNCHANGED <<results, exitCode>>
              ELSE /\ idx' = 1
                   /\ pc' = "send_begin"
                   /\ UNCHANGED <<results, exitCode>>
    /\ UNCHANGED <<file, ctlVars, cached, scanVars, chosen, connected, sendLog,
                   writes, infoList, ret, prompts, saves, file0, pure>>

\* What the operator can type at the prompt, as read_line returns it.
PromptInputs ==
    { <<"y", NEWLINE>>, <<"Y", NEWLINE>>, <<" ", "y", "\r", NEWLINE>>,
      <<"n", NEWLINE>>, <<"y", "e", "s", NEWLINE>>, <<NEWLINE>>, <<>> }

RECURSIVE TrimStart(_)
TrimStart(t) == IF t # <<>> /\ IsWhitespace(Head(t)) THEN TrimStart(Tail(t)) ELSE t

RECURSIVE TrimEnd(_)
TrimEnd(t) ==
    IF t # <<>> /\ IsWhitespace(t[Len(t)]) THEN TrimEnd(SubSeq(t, 1, Len(t) - 1)) ELSE t

\* An answer that counts as yes when it starts with y.
AffirmativePrefix(input) ==
    TrimStart(input) # <<>> /\ Head(TrimStart(input)) \in {"y", "Y"}

\* main.rs:502: input.trim().eq_ignore_ascii_case("y")
Affirmative(input) == TrimEnd(TrimStart(input)) \in {<<"y">>, <<"Y">>}

\* A prompt that is asked again after a negative answer.
CmdPromptAskAgain(ok, input) ==
    /\ pc = "cmd_prompt"
    /\ prompts' = prompts + 1
    /\ IF ~ok THEN Exit(EXIT_GENERAL_ERROR) /\ pipe' = pipe
       ELSE IF Affirmative(input)
       THEN pc' = "scan_acquire" /\ pipe' = "fresh" /\ UNCHANGED exitCode
       ELSE pc' = "cmd_prompt" /\ pipe' = pipe /\ UNCHANGED exitCode
    /\ UNCHANGED <<file, mode, json, command, cached, scanVars, batchVars, infoList,
                   ret, results, saves, file0, pure>>

\* main.rs:499-537: the prompt (interactive mode only).  read_line()? returns
\* the Err to main.
CmdPrompt(ok, input) ==
    /\ pc = "cmd_prompt"
    /\ prompts' = prompts + 1
    /\ IF ~ok THEN Exit(EXIT_GENERAL_ERROR) /\ pipe' = pipe
       ELSE IF Affirmative(input)
       THEN pc' = "scan_acquire" /\ pipe' = "fresh" /\ UNCHANGED exitCode
       ELSE Exit(EXIT_NO_DEVICES_FOUND) /\ pipe' = pipe
    /\ UNCHANGED <<file, mode, json, command, cached, scanVars, batchVars, infoList,
                   ret, results, saves, file0, pure>>

\* A report that fails the dispatch when a send has failed.
CmdReportSendFailures ==
    /\ pc = "cmd_report"
    /\ IF \E i \in 1..Len(sendLog) : sendLog[i].outcome # "ok"
       THEN /\ PrintIfJson(ResponseError(EXIT_COMMAND_FAILED))
            /\ Exit(EXIT_COMMAND_FAILED)
       ELSE /\ PrintIfJson(ResponseSuccess([i \in 1..Len(targets) |->
                                               PeripheralToDeviceInfo(targets[i])]))
            /\ Exit(EXIT_SUCCESS)
    /\ UNCHANGED <<file, ctlVars, cached, scanVars, batchVars, infoList, ret,
                   prompts, saves, file0, pure>>

\* A report that also saves the devices it reports.
CmdReportSaves ==
    /\ pc = "cmd_report"
    /\ PrintIfJson(ResponseSuccess([i \in 1..Len(targets) |->
                                       PeripheralToDeviceInfo(targets[i])]))
    /\ Exit(EXIT_SUCCESS)
    /\ file' = SaveFile(file, [i \in 1..Len(targets) |->
                                  PeripheralToDeviceInfo(targets[i])], "ok")
    /\ saves' = saves + 1
    /\ UNCHANGED <<ctlVars, cached, scanVars, batchVars, infoList, ret,
                   prompts, file0, pure>>

\* main.rs:549-586: after handle_device_command, which returns Ok(()).
CmdReport ==
    /\ pc = "cmd_report"
    /\ PrintIfJson(ResponseSuccess([i \in 1..Len(targets) |->
                                       PeripheralToDeviceInfo(targets[i])]))
    /\ Exit(EXIT_SUCCESS)
    /\ UNCHANGED <<file, ctlVars, cached, scanVars, batchVars, infoList, ret,
                   prompts, saves, file0, pure>>

\* main.rs:504-526 and 593-614: after scan_process_and_save(command_mode).
CmdFresh(outcome) ==
    /\ pc = "finish" /\ mode = "command"
    /\ IF ret.ok
       THEN /\ PrintIfJson(ResponseSuccess(UnwrapOrDefault(LoadDevices(file, outcome))))
            /\ Exit(EXIT_SUCCESS)
       ELSE /\ PrintIfJson(ResponseError(EXIT_COMMAND_FAILED))
            /\ Exit(EXIT_COMMAND_FAILED)
    /\ file' = IF ret.ok THEN LoadFile(file, outcome) ELSE file
    /\ UNCHANGED <<ctlVars, cached, scanVars, batchVars, infoList, ret, prompts,
                   saves, file0, pure>>

(***************************************************************************)
(* scan_process_and_save_with_json(command_mode, json_output): the fresh   *)
(* scan with classification.                                               *)
(***************************************************************************)
\* The function returns r to its caller.
ScanReturn(r) == ret' = r /\ pc' = "finish"

\* File::create is reached unless get_config_path()? fails first.
SaveCreates(outcome) == outcome # "path_err"

\* scanning.rs:43-58: the adapter; every failure is returned with `?`.
ScanAcquire(outcome) ==
    /\ pc = "scan_acquire"
    /\ IF outcome = "ok" THEN pc' = "scan_start" /\ ret' = ret ELSE ScanReturn(Err)
    /\ UNCHANGED <<file, ctlVars, cached, scanVars, batchVars, infoList, ioVars,
                   saves, file0, pure>>

\* A fresh scan that goes on to read the peripherals when start_scan failed.
ScanStartScanIgnoreFailure(ok) ==
    /\ pc = "scan_start"
    /\ scans' = scans + 1
    /\ scanning' = (ok \/ scanning)
    /\ pc' = "scan_peripherals"
    /\ UNCHANGED <<file, ctlVars, cached, peripherals, listed, batchVars, infoList,
                   ret, ioVars, saves, file0, pure>>

\* scanning.rs:60-65: adapter.start_scan(..)? and the 5 s sleep.
ScanStartScan(ok) ==
    /\ pc = "scan_start"
    /\ scans' = scans + 1
    /\ IF ok THEN scanning' = TRUE /\ pc' = "scan_peripherals" /\ ret' = ret
       ELSE ScanReturn(Err) /\ UNCHANGED scanning
    /\ UNCHANGED <<file, ctlVars, cached, peripherals, listed, batchVars, infoList,
                   ioVars, saves, file0, pure>>

\* scanning.rs:67-68: adapter.peripherals()?.
ScanPeripherals(ok, list) ==
    /\ pc = "scan_peripherals"
    /\ IF ok
       THEN peripherals' = list /\ listed' = TRUE /\ pc' = "scan_process" /\ ret' = ret
       ELSE ScanReturn(Err) /\ UNCHANGED <<peripherals, listed>>
    /\ UNCHANGED <<file, ctlVars, cached, scanning, scans, batchVars, infoList,
                   ioVars, saves, file0, pure>>

\* A fresh scan that keeps every peripheral.
LighthouseStationsAll(peris) == peris

\* scanning.rs:107-156: the classified peripherals, in the scan's order.
LighthouseStations(peris) ==
    SelectSeq(peris, LAMBDA p : ClassifyScan(PeripheralProperties(p)))

\* scanning.rs:172-191: device_info_list of the stations.
DeviceInfoList(stations) ==
    [i \in 1..Len(stations) |-> PeripheralToDeviceInfo(stations[i])]

\* A scan processing that returns the Err of a failed save.
ScanProcessSaveFatal(propsOk, saveOutcome) ==
    /\ pc = "scan_process"
    /\ LET stations == LighthouseStations(peripherals)
       IN  IF peripherals = <<>>
           THEN /\ pc' = "scan_stop"
                /\ UNCHANGED <<file, saves, infoList, targets, idx, ret>>
           ELSE IF ~propsOk
           THEN /\ ScanReturn(Err)
                /\ UNCHANGED <<file, saves, infoList, targets, idx>>
           ELSE IF stations = <<>>
           THEN /\ pc' = "scan_stop"
                /\ UNCHANGED <<file, saves, infoList, targets, idx, ret>>
           ELSE /\ infoList' = DeviceInfoList(stations)
                /\ file' = SaveFile(file, DeviceInfoList(stations), saveOutcome)
                /\ saves' = IF SaveCreates(saveOutcome) THEN saves + 1 ELSE saves
                /\ IF ~SaveOk(saveOutcome)
                   THEN ScanReturn(Err) /\ UNCHANGED <<targets, idx>>
                   ELSE /\ ret' = ret
                        /\ IF command # NO_COMMAND
                           THEN targets' = stations /\ idx' = 1 /\ pc' = "send_begin"
                           ELSE pc' = "scan_stop" /\ UNCHANGED <<targets, idx>>
    /\ UNCHANGED <<ctlVars, cached, scanVars, chosen, connected, sendLog, writes,
                   ioVars, file0, pure>>

\* scanning.rs:96-208: process_scan_results_with_json up to the dispatch.
\* propsOk: the peripheral.properties().await? calls succeed.
ScanProcess(propsOk, saveOutcome) ==
    /\ pc = "scan_process"
    /\ LET stations == LighthouseStations(peripherals)
       IN  IF peripherals = <<>>
           THEN /\ pc' = "scan_stop"
                /\ UNCHANGED <<file, saves, infoList, targets, idx, ret>>
           ELSE IF ~propsOk
           THEN /\ ScanReturn(Err)
                /\ UNCHANGED <<file, saves, infoList, targets, idx>>
           ELSE IF stations = <<>>
           THEN /\ pc' = "scan_stop"
                /\ UNCHANGED <<file, saves, infoList, targets, idx, ret>>
           ELSE /\ infoList' = DeviceInfoList(stations)
                /\ file' = SaveFile(file, DeviceInfoList(stations), saveOutcome)
                /\ saves' = IF SaveCreates(saveOutcome) THEN saves + 1 ELSE saves
                /\ ret' = ret
                /\ IF command # NO_COMMAND
                   THEN targets' = stations /\ idx' = 1 /\ pc' = "send_begin"
                   ELSE pc' = "scan_stop" /\ UNCHANGED <<targets, idx>>
    /\ UNCHANGED <<ctlVars, cached, scanVars, chosen, connected, sendLog, writes,
                   ioVars, file0, pure>>

\* scanning.rs:73-77: adapter.stop_scan()? and Ok(()).
ScanStopScan(ok) ==
    /\ pc = "scan_stop"
    /\ scanning' = IF ok THEN FALSE ELSE scanning
    /\ ScanReturn(IF ok THEN Ok(<<>>) ELSE Err)
    /\ UNCHANGED <<file, ctlVars, cached, peripherals, listed, scans, batchVars,
                   infoList, ioVars, saves, file0, pure>>

(***************************************************************************)
(* power_on_lighthouses_with_json / standby_lighthouses_with_json: the     *)
(* power-event scan.  The two functions differ in the command only.        *)
(***************************************************************************)
\* device_control.rs:238-251 (319-332).
PowerAcquire(outcome) ==
    /\ pc = "power_acquire"
    /\ IF outcome = "ok" THEN pc' = "power_start" /\ ret' = ret ELSE ScanReturn(Err)
    /\ UNCHANGED <<file, ctlVars, cached, scanVars, batchVars, infoList, ioVars,
                   saves, file0, pure>>

\* device_control.rs:253-258 (334-339): start_scan(..)? and the 3 s sleep.
PowerStartScan(ok) ==
    /\ pc = "power_start"
    /\ scans' = scans + 1
    /\ IF ok THEN scanning' = TRUE /\ pc' = "power_peripherals" /\ ret' = ret
       ELSE ScanReturn(Err) /\ UNCHANGED scanning
    /\ UNCHANGED <<file, ctlVars, cached, peripherals, listed, batchVars, infoList,
                   ioVars, saves, file0, pure>>

\* device_control.rs:260 (341): adapter.peripherals()?.
PowerPeripherals(ok, list) ==
    /\ pc = "power_peripherals"
    /\ IF ok
       THEN peripherals' = list /\ listed' = TRUE /\ pc' = "power_stop" /\ ret' = ret
       ELSE ScanReturn(Err) /\ UNCHANGED <<peripherals, listed>>
    /\ UNCHANGED <<file, ctlVars, cached, scanning, scans, batchVars, infoList,
                   ioVars, saves, file0, pure>>

\* device_control.rs:261 (342): adapter.stop_scan()?.
PowerStopScan(ok) ==
    /\ pc = "power_stop"
    /\ IF ok THEN scanning' = FALSE /\ pc' = "power_classify" /\ ret' = ret
       ELSE ScanReturn(Err) /\ UNCHANGED scanning
    /\ UNCHANGED <<file, ctlVars, cached, peripherals, listed, scans, batchVars,
                   infoList, ioVars, saves, file0, pure>>

\* device_control.rs:264-284 (345-365): lighthouse_devices, in the scan's order.
LighthouseDevices(peris) ==
    SelectSeq(peris, LAMBDA p :
        ClassifyPower([ok |-> TRUE, props |-> PeripheralProperties(p)]))

\* device_control.rs:277-280 (358-361): device_info_list of the power event.
PowerInfoList(devices) ==
    [i \in 1..Len(devices) |->
        [name |-> PowerName(PeripheralProperties(devices[i])),
         address |-> PeripheralAddress(devices[i])]]

\* device_control.rs:264-302 (345-383): classification, save and dispatch.
PowerClassify(saveOutcome) ==
    /\ pc = "power_classify"
    /\ LET devices == LighthouseDevices(peripherals)
       IN  IF devices = <<>>
           THEN /\ ScanReturn(Ok(<<>>))
                /\ UNCHANGED <<file, saves, infoList, targets, idx>>
           ELSE /\ infoList' = PowerInfoList(devices)
                /\ file' = SaveFile(file, PowerInfoList(devices), saveOutcome)
                /\ saves' = IF SaveCreates(saveOutcome) THEN saves + 1 ELSE saves
                /\ targets' = devices
                /\ idx' = 1
                /\ pc' = "send_begin"
                /\ ret' = ret
    /\ UNCHANGED <<ctlVars, cached, scanVars, chosen, connected, sendLog, writes,
                   ioVars, file0, pure>>

\* device_control.rs:302-304 (383-385): Ok(device_info_list).
PowerReturn ==
    /\ pc = "power_return"
    /\ ScanReturn(Ok(infoList))
    /\ UNCHANGED <<file, ctlVars, cached, scanVars, batchVars, infoList, ioVars,
                   saves, file0, pure>>

(***************************************************************************)
(* handle_device_command_with_json and send_command_to_device_with_json:   *)
(* the batch, one device at a time.                                        *)
(***************************************************************************)
\* The device the batch loop is at.
Device == targets[idx]

\* Where handle_device_command returns to.
AfterBatch ==
    CASE pipe = "cached" -> "cmd_report"
      [] pipe = "fresh" -> "scan_stop"
      [] pipe = "power" -> "power_return"

\* A batch loop that returns at the first failed send.
NextDeviceAbort(outcome) ==
    /\ sendLog' = Append(sendLog, [p |-> Device, outcome |-> outcome])
    /\ idx' = idx + 1
    /\ pc' = IF idx + 1 > Len(targets) \/ outcome # "ok" THEN AfterBatch
             ELSE "send_begin"

\* device_control.rs:195-217: the send returned (Ok or Err, both only logged);
\* the 500 ms sleep; the next device, or the end of the loop.
NextDevice(outcome) ==
    /\ sendLog' = Append(sendLog, [p |-> Device, outcome |-> outcome])
    /\ idx' = idx + 1
    /\ pc' = IF idx + 1 > Len(targets) THEN AfterBatch ELSE "send_begin"

\* device_control.rs:31-53: properties()?, is_connected()?, connect()?.
SendConnect(ok) ==
    /\ pc = "send_begin"
    /\ IF ok
       THEN /\ connected' = connected \cup {Device}
            /\ pc' = "send_discover"
            /\ UNCHANGED <<sendLog, idx>>
       ELSE NextDevice("connect_err") /\ UNCHANGED connected
    /\ UNCHANGED <<file, ctlVars, cached, scanVars, targets, chosen, writes,
                   infoList, ret, ioVars, saves, file0, pure>>

\* device_control.rs:55-115 and 141-150: discover_services()?, the choice of
\* target_char, and the Err when there is none.
SendDiscover(ok) ==
    /\ pc = "send_discover"
    /\ LET target == TargetChar(PeripheralServices(Device))
       IN  IF ~ok
           THEN NextDevice("discover_err") /\ UNCHANGED chosen
           ELSE IF target = None
           THEN NextDevice("no_char") /\ UNCHANGED chosen
           ELSE chosen' = target /\ pc' = "send_write" /\ UNCHANGED <<sendLog, idx>>
    /\ UNCHANGED <<file, ctlVars, cached, scanVars, targets, connected, writes,
                   infoList, ret, ioVars, saves, file0, pure>>

\* device_control.rs:124: command_bytes
CommandBytes(cmd) == <<cmd>>

\* device_control.rs:118-127: peripheral.write(.., WriteType::WithoutResponse)?.
SendWrite(ok) ==
    /\ pc = "send_write"
    /\ writes' = Append(writes, [p |-> Device, char |-> chosen[1].uuid,
                                 bytes |-> CommandBytes(command)])
    /\ IF ok THEN pc' = "send_disconnect" /\ UNCHANGED <<sendLog, idx>>
       ELSE NextDevice("write_err")
    /\ UNCHANGED <<file, ctlVars, cached, scanVars, targets, chosen, connected,
                   infoList, ret, ioVars, saves, file0, pure>>

\* device_control.rs:152-156: peripheral.disconnect()? and Ok(()).
SendDisconnect(ok) ==
    /\ pc = "send_disconnect"
    /\ IF ok
       THEN connected' = connected \ {Device} /\ NextDevice("ok")
       ELSE connected' = connected /\ NextDevice("disconnect_err")
    /\ UNCHANGED <<file, ctlVars, cached, scanVars, targets, chosen, writes,
                   infoList, ret, ioVars, saves, file0, pure>>

(***************************************************************************)
(* The other handlers of the CLI.                                          *)
(***************************************************************************)
\* main.rs:139-153 and 181-189: handle_devices_command up to the scan.
DevLoad(outcome) ==
    /\ pc = "dev_load"
    /\ LET r == LoadDevices(file, outcome)
       IN  IF ~r.ok
           THEN /\ results' = Append(results, ResponseError(EXIT_GENERAL_ERROR))
                /\ Exit(EXIT_GENERAL_ERROR)
                /\ pipe' = pipe
           ELSE IF r.val # <<>>
           THEN /\ results' = Append(results, ResponseSuccess(r.val))
                /\ Exit(EXIT_SUCCESS)
                /\ pipe' = pipe
           ELSE /\ pc' = "scan_acquire"
                /\ pipe' = "fresh"
                /\ UNCHANGED <<results, exitCode>>
    /\ file' = LoadFile(file, outcome)
    /\ UNCHANGED <<mode, json, command, cached, scanVars, batchVars, infoList, ret,
                   prompts, saves, file0, pure>>

\* A --devices scan that reports an empty device list as an error.
DevAfterScanEmptyIsError(outcome) ==
    /\ pc = "finish" /\ mode = "devices"
    /\ IF ret.ok /\ UnwrapOrDefault(LoadDevices(file, outcome)) # <<>>
       THEN /\ results' = Append(results,
                   ResponseSuccess(UnwrapOrDefault(LoadDevices(file, outcome))))
            /\ Exit(EXIT_SUCCESS)
       ELSE IF ret.ok
       THEN /\ results' = Append(results, ResponseError(EXIT_NO_DEVICES_FOUND))
            /\ Exit(EXIT_NO_DEVICES_FOUND)
       ELSE /\ results' = Append(results, ResponseError(EXIT_BLUETOOTH_ERROR))
            /\ Exit(EXIT_BLUETOOTH_ERROR)
    /\ file' = IF ret.ok THEN LoadFile(file, outcome) ELSE file
    /\ UNCHANGED <<ctlVars, cached, scanVars, batchVars, infoList, ret, prompts,
                   saves, file0, pure>>

\* main.rs:156-177: handle_devices_command after the scan (prints in both modes).
DevAfterScan(outcome) ==
    /\ pc = "finish" /\ mode = "devices"
    /\ IF ret.ok
       THEN /\ results' = Append(results,
                   ResponseSuccess(UnwrapOrDefault(LoadDevices(file, outcome))))
            /\ Exit(EXIT_SUCCESS)
       ELSE /\ results' = Append(results, ResponseError(EXIT_BLUETOOTH_ERROR))
            /\ Exit(EXIT_BLUETOOTH_ERROR)
    /\ file' = IF ret.ok THEN LoadFile(file, outcome) ELSE file
    /\ UNCHANGED <<ctlVars, cached, scanVars, batchVars, infoList, ret, prompts,
                   saves, file0, pure>>

\* main.rs:308-332: handle_scan_command after the scan.
ScanAfterScan(outcome) ==
    /\ pc = "finish" /\ mode = "scan"
    /\ IF ret.ok
       THEN /\ PrintIfJson(ResponseSuccess(UnwrapOrDefault(LoadDevices(file, outcome))))
            /\ Exit(EXIT_SUCCESS)
       ELSE /\ PrintIfJson(ResponseError(EXIT_BLUETOOTH_ERROR))
            /\ Exit(EXIT_BLUETOOTH_ERROR)
    /\ file' = IF ret.ok THEN LoadFile(file, outcome) ELSE file
    /\ UNCHANGED <<ctlVars, cached, scanVars, batchVars, infoList, ret, prompts,
                   saves, file0, pure>>

\* main.rs:249-305: handle_steamvr_started / handle_steamvr_stopped after the
\* power-event function; the cache is loaded in JSON mode only.
SteamvrAfter(outcome) ==
    /\ pc = "finish" /\ mode = "steamvr"
    /\ IF ret.ok
       THEN /\ PrintIfJson(ResponseSuccess(UnwrapOrDefault(LoadDevices(file, outcome))))
            /\ Exit(EXIT_SUCCESS)
       ELSE /\ PrintIfJson(ResponseError(EXIT_COMMAND_FAILED))
            /\ Exit(EXIT_COMMAND_FAILED)
    /\ file' = IF ret.ok /\ json THEN LoadFile(file, outcome) ELSE file
    /\ UNCHANGED <<ctlVars, cached, scanVars, batchVars, infoList, ret, prompts,
                   saves, file0, pure>>

(***************************************************************************)
(* The TUI's keys and the GUI's commands: callers of the same functions.   *)
(* They end no process: exitCode stays -1, and ret holds what the caller   *)
(* is given.                                                               *)
(***************************************************************************)
\* tui.rs:172-205: 'r' (rescan), 'p' (power on), 's' (standby).
StartTui(cmd) ==
    /\ Begin("tui", "fresh", FALSE, cmd)
    /\ pc' = "scan_acquire"

\* tui.rs:176-204: after the scan; 'r' reloads the cache.
TuiAfter(outcome) ==
    /\ pc = "finish" /\ mode = "tui"
    /\ pc' = "done"
    /\ ret' = IF ret.ok /\ command = NO_COMMAND THEN LoadDevices(file, outcome) ELSE ret
    /\ file' = IF ret.ok /\ command = NO_COMMAND THEN LoadFile(file, outcome) ELSE file
    /\ UNCHANGED <<ctlVars, cached, scanVars, batchVars, infoList, ioVars, saves,
                   file0, pure>>

\* lib.rs:22-26: scan_for_devices.
StartGuiScan ==
    /\ Begin("gui", "fresh", FALSE, NO_COMMAND)
    /\ pc' = "scan_acquire"

\* lib.rs:30-42: power_on_all / standby_all; app main.rs:27-45: run_headless.
StartGuiPower(cmd) ==
    /\ Begin("gui", "power", FALSE, cmd)
    /\ pc' = "power_acquire"

\* lib.rs:26-27 and 32-41: what the command returns.
GuiAfter(outcome) ==
    /\ pc = "finish" /\ mode = "gui"
    /\ pc' = "done"
    /\ ret' = IF ret.ok /\ pipe = "fresh" THEN LoadDevices(file, outcome) ELSE ret
    /\ file' = IF ret.ok /\ pipe = "fresh" THEN LoadFile(file, outcome) ELSE file
    /\ UNCHANGED <<ctlVars, cached, scanVars, batchVars, infoList, ioVars, saves,
                   file0, pure>>

\* lib.rs:17-20: clear_saved_devices.
StartGuiClear ==
    /\ Begin("gui", "none", FALSE, NO_COMMAND)
    /\ pc' = "gui_clear"

\* lib.rs:19: save_devices(&Vec::new()).
GuiClearSave(outcome) ==
    /\ pc = "gui_clear"
    /\ file' = SaveFile(file, <<>>, outcome)
    /\ saves' = IF SaveCreates(outcome) THEN saves + 1 ELSE saves
    /\ ret' = IF SaveOk(outcome) THEN Ok(<<>>) ELSE Err
    /\ pc' = "done"
    /\ UNCHANGED <<ctlVars, cached, scanVars, batchVars, infoList, ioVars, file0, pure>>

\* lib.rs:11-14: get_devices.
StartGuiGet ==
    /\ Begin("gui", "none", FALSE, NO_COMMAND)
    /\ pc' = "gui_get"

\* lib.rs:13: load_devices().
GuiGetLoad(outcome) ==
    /\ pc = "gui_get"
    /\ ret' = LoadDevices(file, outcome)
    /\ file' = LoadFile(file, outcome)
    /\ pc' = "done"
    /\ UNCHANGED <<ctlVars, cached, scanVars, batchVars, infoList, ioVars, saves,
                   file0, pure>>

(***************************************************************************)
(* The specification of the program: operations one after another, each    *)
(* single-threaded.                                                        *)
(***************************************************************************)
Commands == {STANDBY_COMMAND, POWERON_COMMAND}

Next ==
    \/ \E poweron_mode, standby_mode, js \in BOOLEAN :
          StartCommand(poweron_mode, standby_mode, js)
    \/ \E js \in BOOLEAN : StartDevices(js)
    \/ \E js \in BOOLEAN : StartScan(js)
    \/ \E cmd \in Commands, js \in BOOLEAN : StartSteamvr(cmd, js)
    \/ \E cmd \in Commands \cup {NO_COMMAND} : StartTui(cmd)
    \/ StartGuiScan
    \/ \E cmd \in Commands : StartGuiPower(cmd)
    \/ StartGuiClear
    \/ StartGuiGet
    \/ \E o \in LoadOutcomes : CmdLoad(o)
    \/ \E o \in AcquireOutcomes : CmdAcquire(o)
    \/ \E ok \in BOOLEAN : CmdStartScan(ok)
    \/ \E ok \in BOOLEAN, l \in ScanLists : CmdPeripherals(ok, l)
    \/ \E ok \in BOOLEAN : CmdStopScan(ok)
    \/ CmdReconcile
    \/ \E ok \in BOOLEAN, input \in PromptInputs : CmdPrompt(ok, input)
    \/ CmdReport
    \/ \E o \in LoadOutcomes : CmdFresh(o)
    \/ \E o \in AcquireOutcomes : ScanAcquire(o)
    \/ \E ok \in BOOLEAN : ScanStartScan(ok)
    \/ \E ok \in BOOLEAN, l \in ScanLists : ScanPeripherals(ok, l)
    \/ \E ok \in BOOLEAN, o \in SaveOutcomes : ScanProcess(ok, o)
    \/ \E ok \in BOOLEAN : ScanStopScan(ok)
    \/ \E o \in AcquireOutcomes : PowerAcquire(o)
    \/ \E ok \in BOOLEAN : PowerStartScan(ok)
    \/ \E ok \in BOOLEAN, l \in ScanLists : PowerPeripherals(ok, l)
    \/ \E ok \in BOOLEAN : PowerStopScan(ok)
    \/ \E o \in SaveOutcomes : PowerClassify(o)
    \/ PowerReturn
    \/ \E ok \in BOOLEAN : SendConnect(ok)
    \/ \E ok \in BOOLEAN : SendDiscover(ok)
    \/ \E ok \in BOOLEAN : SendWrite(ok)
    \/ \E ok \in BOOLEAN : SendDisconnect(ok)
    \/ \E o \in LoadOutcomes : DevLoad(o)
    \/ \E o \in LoadOutcomes : DevAfterScan(o)
    \/ \E o \in LoadOutcomes : ScanAfterScan(o)
    \/ \E o \in LoadOutcomes : SteamvrAfter(o)
    \/ \E o \in LoadOutcomes : TuiAfter(o)
    \/ \E o \in LoadOutcomes : GuiAfter(o)
    \/ \E o \in SaveOutcomes : GuiClearSave(o)
    \/ \E o \in LoadOutcomes : GuiGetLoad(o)

Spec == Init /\ [][Next]_vars

(***************************************************************************)
(* Classification on its own: one peripheral's advertisement is drawn at   *)
(* the start and both classification sites are applied to it.              *)
(***************************************************************************)
ClassifyNames ==
    { <<>>, <<"L">>, <<"L", "H">>, LHB_PREFIX, LHB_PREFIX \o <<"-", "1">>,
      <<"l", "h", "b", "-", "1">>, <<"X", "L", "H", "B">>, <<"L", "H", "A", "B">>,
      Unknown }

ManufacturerIds == {LIGHTHOUSE_MANUFACTURER_ID, LIGHTHOUSE_MANUFACTURER_ID - 1, 76}

ManufacturerBytes == {<<>>, <<0>>, <<1, 2>>}

\* The HashMap<u16, Vec<u8>> values over these ids and bytes.
ManufacturerMaps ==
    UNION { { {[id |-> i, data |-> f[i]] : i \in S} : f \in [S -> ManufacturerBytes] }
            : S \in SUBSET ManufacturerIds }

PropertiesInputs ==
    {None} \cup
    { Some([local_name |-> n, manufacturer_data |-> m]) :
        n \in {None} \cup {Some(x) : x \in ClassifyNames}, m \in ManufacturerMaps }

InitClassify ==
    /\ file = NoFile
    /\ NotStarted
    /\ \E ok \in BOOLEAN, props \in PropertiesInputs :
          pure = [spec |-> "classify", res |-> [ok |-> ok, props |-> props],
                  scan |-> None, power |-> None]

\* process_scan_results_with_json reaches its classification with the
\* properties it has read (`?`: not at all when properties() failed).
ClassifyAtScan ==
    /\ pure.res.ok
    /\ pure.scan = None
    /\ pure' = [pure EXCEPT !.scan = Some(ClassifyScan(pure.res.props))]
    /\ UNCHANGED <<file, runVars>>

\* power_on/standby_lighthouses_with_json classify the same peripheral.
ClassifyAtPower ==
    /\ pure.power = None
    /\ pure' = [pure EXCEPT !.power = Some(ClassifyPower(pure.res))]
    /\ UNCHANGED <<file, runVars>>

NextClassify == ClassifyAtScan \/ ClassifyAtPower

SpecClassify == InitClassify /\ [][NextClassify]_vars

(***************************************************************************)
(* The cache on its own: a device list is drawn at the start; it is saved  *)
(* and the file is loaded, in any order and any number of times.           *)
(***************************************************************************)
CacheNames == {<<>>, <<"L", "H", "B">>, <<QUOTE, "a">>, <<BACKSLASH, NEWLINE>>}

CacheAddresses == {Addr1, Addr2, <<"\t", ":", BACKSLASH>>}

CacheRecords == {[name |-> n, address |-> a] : n \in CacheNames, a \in CacheAddresses}

CacheLists == SeqsUpTo(CacheRecords, MaxList)

InitCache ==
    /\ file = NoFile
    /\ NotStarted
    /\ \E D \in CacheLists :
          pure = [spec |-> "cache", D |-> D, saved |-> None, loaded |-> None,
                  io |-> "ok", before |-> NoFile]

\* save_devices(D); saved is whether the latest call returned Ok.
CacheSave(outcome) ==
    /\ file' = SaveFile(file, pure.D, outcome)
    /\ pure' = [pure EXCEPT !.saved = Some(SaveOk(outcome)), !.loaded = None]
    /\ UNCHANGED runVars

\* load_devices(); loaded is what it returned, io the I/O outcome it met and
\* before the file it met.
CacheLoad(outcome) ==
    /\ file' = LoadFile(file, outcome)
    /\ pure' = [pure EXCEPT !.loaded = Some(LoadDevices(file, outcome)),
                            !.io = outcome, !.before = file]
    /\ UNCHANGED runVars

NextCache ==
    \/ \E o \in SaveOutcomes : CacheSave(o)
    \/ \E o \in LoadOutcomes : CacheLoad(o)

SpecCache == InitCache /\ [][NextCache]_vars

(***************************************************************************)
(* The choice of the characteristic on its own: the services a peripheral  *)
(* reports after discover_services are drawn at the start, and the send    *)
(* goes on from there.                                                     *)
(***************************************************************************)
GattServiceUuids == {LIGHTHOUSE_SERVICE_UUID, "00001800", "0000180f"}

\* The characteristics a service with uuid svc may hold.
GattChars(svc) ==
    { [uuid |-> c[1], service_uuid |-> svc, properties |-> c[2]] :
        c \in { <<LIGHTHOUSE_CHAR_UUID, {"WRITE", "WRITE_WITHOUT_RESPONSE"}>>,
                <<LIGHTHOUSE_CHAR_UUID, {"READ"}>>,
                <<"00002a00", {"READ"}>>,
                <<"00002a01", {"WRITE"}>>,
                <<"00002a02", {"READ", "WRITE_WITHOUT_RESPONSE"}>> } }

\* The characteristic lists of a service, of at most n characteristics with
\* different uuids.
GattCharLists(svc, n) ==
    { cs \in SeqsUpTo(GattChars(svc), n) :
        \A i, j \in 1..Len(cs) : i # j => cs[i].uuid # cs[j].uuid }

RECURSIVE GattServices(_, _)
\* The service lists with the uuids us, in that order, that hold at most n
\* characteristics in all.
GattServices(us, n) ==
    IF us = <<>> THEN {<<>>}
    ELSE UNION { { <<[uuid |-> Head(us), characteristics |-> cs]>> \o rest :
                     rest \in GattServices(Tail(us), n - Len(cs)) }
                 : cs \in GattCharLists(Head(us), n) }

\* peripheral.services(): services with different uuids, in any order.
GattServiceLists ==
    UNION { GattServices(us, MaxChars) :
              us \in { u \in SeqsUpTo(GattServiceUuids, Cardinality(GattServiceUuids)) :
                         \A i, j \in 1..Len(u) : i # j => u[i] # u[j] } }

InitGatt ==
    /\ file = NoFile
    /\ NotStarted
    /\ \E S \in GattServiceLists :
          pure = [spec |-> "gatt", services |-> S, selected |-> FALSE,
                  target |-> None, writes |-> <<>>, result |-> None]

\* device_control.rs:59-115 and 141-150: target_char is chosen; without
\* one the send returns the Err.
GattSelect ==
    /\ ~pure.selected
    /\ LET target == TargetChar(pure.services)
       IN  pure' = [pure EXCEPT !.selected = TRUE, !.target = target,
                                !.result = IF target = None
                                           THEN Some("no_char") ELSE None]
    /\ UNCHANGED <<file, runVars>>

\* device_control.rs:118-127: the write to target_char.
GattWrite(ok) ==
    /\ pure.selected /\ pure.target # None /\ pure.result = None
    /\ pure' = [pure EXCEPT !.writes = Append(pure.writes, pure.target[1]),
                            !.result = Some(IF ok THEN "ok" ELSE "write_err")]
    /\ UNCHANGED <<file, runVars>>

NextGatt == GattSelect \/ \E ok \in BOOLEAN : GattWrite(ok)

SpecGatt == InitGatt /\ [][NextGatt]_vars

(***************************************************************************)
(* Two invocations that save at the same time.  Each has its own file      *)
(* handle: File::create truncates the file, and write_all writes the text  *)
(* from the handle's own position 0.                                       *)
(***************************************************************************)
\* config/mod.rs:38: File::create(config_path).
FileCreate(f) == [exists |-> TRUE, text |-> <<>>]

\* config/mod.rs:39: file.write_all(json.as_bytes()) on a handle at position
\* 0: what the file holds beyond the written bytes stays.
FileWriteAll(f, bytes) ==
    [exists |-> TRUE,
     text |-> bytes \o SubSeq(f.text, Len(bytes) + 1, Len(f.text))]

Savers == {1, 2}

\* The device lists an invocation may be saving.
SaverLists ==
    SeqsUpTo({PeripheralToDeviceInfo(p) : p \in {"p1", "p2"}}, MaxList)

InitSavers ==
    /\ NotStarted
    /\ \E f \in {NoFile} \cup {SaveFile(NoFile, D, "ok") : D \in SaverLists},
          D1, D2 \in SaverLists :
          /\ file = f
          /\ pure = [spec |-> "savers", D |-> <<D1, D2>>,
                     at |-> <<"create", "create">>, last |-> 0, loaded |-> None]

\* config/mod.rs:31-38 in invocation i: the path, the text, File::create.
SaverCreate(i) ==
    /\ pure.at[i] = "create"
    /\ file' = FileCreate(file)
    /\ pure' = [pure EXCEPT !.at[i] = "write"]
    /\ UNCHANGED runVars

\* config/mod.rs:39-41 in invocation i: write_all and Ok(()).
SaverWrite(i) ==
    /\ pure.at[i] = "write"
    /\ file' = FileWriteAll(file, ToStringPretty(pure.D[i]))
    /\ pure' = [pure EXCEPT !.at[i] = "done", !.last = i]
    /\ UNCHANGED runVars

\* A load_devices() after both saves have returned.
SaversLoad ==
    /\ \A i \in Savers : pure.at[i] = "done"
    /\ pure.loaded = None
    /\ pure' = [pure EXCEPT !.loaded = Some(LoadDevices(file, "ok"))]
    /\ file' = LoadFile(file, "ok")
    /\ UNCHANGED runVars

NextSavers ==
    \/ \E i \in Savers : SaverCreate(i) \/ SaverWrite(i)
    \/ SaversLoad

SpecSavers == InitSavers /\ [][NextSavers]_vars

(***************************************************************************)
(* One send_command_to_device_with_json on its own, platform call by       *)
(* platform call: the peripheral, the command and whether the peripheral   *)
(* is connected already are drawn at the start; calls is the log of the    *)
(* platform calls made.                                                    *)
(***************************************************************************)
InitSend ==
    /\ file = NoFile
    /\ NotStarted
    /\ \E p \in Peripherals, cmd \in {STANDBY_COMMAND, POWERON_COMMAND},
          c \in BOOLEAN :
          pure = [spec |-> "send", p |-> p, command |-> cmd, connected0 |-> c,
                  conn |-> c, at |-> "properties", calls |-> <<>>,
                  target |-> None, writes |-> <<>>, result |-> None]

\* The call is logged; the send goes on to next, or returns the Err of `?`.
SendCall(at, name, ok, next) ==
    /\ pure.at = at
    /\ pure' = [pure EXCEPT !.calls = Append(pure.calls, name),
                            !.at = IF ok THEN next ELSE "returned",
                            !.result = IF ok THEN None ELSE Some(name)]
    /\ UNCHANGED <<file, runVars>>

\* device_control.rs:31-34: peripheral.properties().await?
SendProperties(ok) == SendCall("properties", "properties", ok, "is_connected")

\* A send that connects without looking at is_connected's answer.
SendIsConnectedIgnored(ok) ==
    SendCall("is_connected", "is_connected", ok, "connect")

\* device_control.rs:45: peripheral.is_connected().await?
SendIsConnected(ok) ==
    SendCall("is_connected", "is_connected", ok,
             IF pure.conn THEN "discover_services" ELSE "connect")

\* device_control.rs:46: peripheral.connect().await?
SendConnectCall(ok) ==
    /\ pure.at = "connect"
    /\ pure' = [pure EXCEPT !.calls = Append(pure.calls, "connect"),
                            !.conn = ok,
                            !.at = IF ok THEN "discover_services" ELSE "returned",
                            !.result = IF ok THEN None ELSE Some("connect")]
    /\ UNCHANGED <<file, runVars>>

\* device_control.rs:56: peripheral.discover_services().await?
SendDiscoverServices(ok) ==
    SendCall("discover_services", "discover_services", ok, "select")

\* device_control.rs:63-115 and 141-150: services(), the choice of
\* target_char, and the Err without one.
SendSelect ==
    /\ pure.at = "select"
    /\ LET target == TargetChar(PeripheralServices(pure.p))
       IN  pure' = [pure EXCEPT !.target = target,
                                !.at = IF target = None THEN "returned" ELSE "write",
                                !.result = IF target = None
                                           THEN Some("no_char") ELSE None]
    /\ UNCHANGED <<file, runVars>>

\* device_control.rs:124-127: peripheral.write(&characteristic,
\* &command_bytes, WriteType::WithoutResponse).await?
SendWriteCall(ok) ==
    /\ pure.at = "write"
    /\ pure' = [pure EXCEPT !.calls = Append(pure.calls, "write"),
                            !.writes = Append(pure.writes,
                                [char |-> pure.target[1].uuid,
                                 bytes |-> CommandBytes(pure.command),
                                 write_type |-> "WithoutResponse",
                                 conn |-> pure.conn]),
                            !.at = IF ok THEN "disconnect" ELSE "returned",
                            !.result = IF ok THEN None ELSE Some("write")]
    /\ UNCHANGED <<file, runVars>>

\* device_control.rs:153-156: peripheral.disconnect().await? and Ok(()).
SendDisconnectCall(ok) ==
    /\ pure.at = "disconnect"
    /\ pure' = [pure EXCEPT !.calls = Append(pure.calls, "disconnect"),
                            !.conn = IF ok THEN FALSE ELSE pure.conn,
                            !.at = "returned",
                            !.result = Some(IF ok THEN "ok" ELSE "disconnect")]
    /\ UNCHANGED <<file, runVars>>

NextSend ==
    \/ \E ok \in BOOLEAN :
          \/ SendProperties(ok)
          \/ SendIsConnected(ok)
          \/ SendConnectCall(ok)
          \/ SendDiscoverServices(ok)
          \/ SendWriteCall(ok)
          \/ SendDisconnectCall(ok)
    \/ SendSelect

SpecSend == InitSend /\ [][NextSend]_vars

(***************************************************************************)
(* The properties.                                                         *)
(***************************************************************************)
\* The peripherals of the latest scan whose address some cached record has.
Matching ==
    {p \in Range(peripherals) :
        \E i \in 1..Len(cached) : cached[i].address = PeripheralAddress(p)}

\* The peripherals a send was attempted on, and those written to.
Attempted == {sendLog[i].p : i \in 1..Len(sendLog)}
Written == {writes[i].p : i \in 1..Len(writes)}

C2_JsonNoDevices ==
    (mode = "command" /\ json /\ cached # <<>> /\ listed /\ Matching = {}
        /\ pc = "done")
    => /\ results = <<[success |-> FALSE, devices |-> <<>>, error_code |-> 3]>>
       /\ exitCode = 3
       /\ prompts = 0
       /\ scans = 1
       /\ sendLog = <<>> /\ writes = <<>>
       /\ saves = 0 /\ file = file0

\* Such a dispatch has ended; its scan saw a peripheral that is not cached.
C2_Witness ==
    /\ mode = "command" /\ json /\ pc = "done"
    /\ cached # <<>> /\ listed /\ peripherals # <<>> /\ Matching = {}
    /\ exitCode = 3

\* The advertisement of p names a lighthouse: "LHB..." and the id 1373.
Lighthouse(p) ==
    LET props == PeripheralProperties(p)
    IN  /\ props # None
        /\ props[1].local_name # None
        /\ Len(props[1].local_name[1]) >= 3
        /\ SubSeq(props[1].local_name[1], 1, 3) = <<"L", "H", "B">>
        /\ 1373 \in {e.id : e \in props[1].manufacturer_data}

\* C3: on every dispatch path a peripheral that is sent to or written to
\* is in the list of this invocation's latest scan and, on the cached path,
\* has the address of a record of the cache this invocation loaded, or, on
\* a fresh-scan or power-event path, is classified as a lighthouse.
C3_WriteTargets ==
    \A p \in Attempted \cup Written :
        /\ p \in Range(peripherals)
        /\ \/ pipe = "cached" /\ p \in Matching
           \/ pipe \in {"fresh", "power"} /\ Lighthouse(p)

\* A fresh scan saw a lighthouse and a peripheral that is none, and wrote
\* to the lighthouse only.
C3_Witness ==
    /\ pipe = "fresh"
    /\ "p3" \in Range(peripherals)
    /\ Written = {"p1"}
    /\ pc = "done"

\* C4: whatever the frontend, when a send has been attempted or a write
\* issued, this invocation has started a scan and read its peripheral list,
\* and every target is a member of the list of the invocation's latest scan.
C4_ScanBeforeWrite ==
    (sendLog # <<>> \/ writes # <<>>) =>
        /\ scans >= 1
        /\ listed
        /\ Attempted \cup Written \subseteq Range(peripherals)

\* A power event has written to a peripheral of its scan.
C4_Witness ==
    /\ mode = "steamvr"
    /\ writes # <<>>
    /\ scans = 1
    /\ listed

\* The places of the send in progress.
SendPlaces == {"send_begin", "send_discover", "send_write", "send_disconnect"}

\* C5: in a batch the sends are attempted on the devices in the batch's
\* order, one attempt each, whatever the earlier attempts came to; when the
\* batch is over every device has had exactly one.
C5_OneAttemptEach ==
    /\ Len(sendLog) <= Len(targets)
    /\ \A i \in 1..Len(sendLog) : sendLog[i].p = targets[i]
    /\ pc \in SendPlaces => (idx = Len(sendLog) + 1 /\ idx <= Len(targets))
    /\ pc \notin SendPlaces => Len(sendLog) = Len(targets)

\* A batch of two is over; the first send failed and the second succeeded.
C5_Witness ==
    /\ Len(targets) = 2
    /\ Len(sendLog) = 2
    /\ sendLog[1].outcome = "connect_err"
    /\ sendLog[2].outcome = "ok"
    /\ pc \notin SendPlaces

\* C6: failed sends do not fail the dispatch.  A --poweron/--standby
\* dispatch whose target set was not empty ends with status 0 and, under
\* --json, with the one response success = true, error_code = 0: always on
\* the cached path, and on the fresh path when stop_scan then succeeded.
C6_BatchNeverFails ==
    (mode = "command" /\ targets # <<>> /\ pc = "done"
        /\ (pipe = "cached" \/ ~scanning))
    => /\ exitCode = 0
       /\ Len(sendLog) = Len(targets)
       /\ json => (/\ Len(results) = 1
                   /\ results[1].success
                   /\ results[1].error_code = 0)
       /\ ~json => results = <<>>

\* A --json dispatch to two cached devices has ended; both sends failed.
C6_Witness ==
    /\ mode = "command" /\ pipe = "cached" /\ json /\ pc = "done"
    /\ Len(sendLog) = 2
    /\ \A i \in 1..Len(sendLog) : sendLog[i].outcome # "ok"
    /\ exitCode = 0

\* The advertisement carries a name that starts with "LHB" and the
\* manufacturer id 1373.
LighthouseAdvertisement(props) ==
    /\ props # None
    /\ props[1].local_name # None
    /\ Len(props[1].local_name[1]) >= 3
    /\ SubSeq(props[1].local_name[1], 1, 3) = <<"L", "H", "B">>
    /\ 1373 \in {e.id : e \in props[1].manufacturer_data}

\* C7: at both classification sites a peripheral is classified as a
\* lighthouse exactly when its advertised name starts with "LHB" and its
\* manufacturer-data map has the key 1373; with no name or no properties
\* it is never classified, and the manufacturer bytes play no part.
C7_Classification ==
    /\ pure.scan # None => (pure.scan[1] <=> LighthouseAdvertisement(pure.res.props))
    /\ pure.power # None =>
          (pure.power[1] <=> (pure.res.ok /\ LighthouseAdvertisement(pure.res.props)))

\* Both sites have classified a peripheral named "LHB-1" whose map holds
\* 1373 with no bytes.
C7_Witness ==
    /\ pure.scan = Some(TRUE)
    /\ pure.power = Some(TRUE)
    /\ pure.res.props[1].local_name = Some(<<"L", "H", "B", "-", "1">>)
    /\ [id |-> 1373, data |-> <<>>] \in pure.res.props[1].manufacturer_data

DistinctAddresses(D) ==
    \A i, j \in 1..Len(D) : i # j => D[i].address # D[j].address

\* C8: for every list D of records with pairwise distinct addresses, when
\* save_devices(D) has returned Ok and the load_devices() that follows meets
\* no I/O failure, it returns Ok(D): the same records in the same order.
C8_RoundTrip ==
    (DistinctAddresses(pure.D) /\ pure.saved = Some(TRUE) /\ pure.loaded # None
        /\ pure.io = "ok")
    => pure.loaded[1] = Ok(pure.D)

\* Two records, one with a quote in its name, went through save and load.
C8_Witness ==
    /\ Len(pure.D) = 2
    /\ DistinctAddresses(pure.D)
    /\ pure.D[1].name = <<QUOTE, "a">>
    /\ pure.saved = Some(TRUE)
    /\ pure.io = "ok"
    /\ pure.loaded = Some(Ok(pure.D))

C10_NoDuplicateAddress ==
    (file.exists /\ FromStr(file.text).ok) =>
        \A i, j \in 1..Len(FromStr(file.text).val) :
            i # j => FromStr(file.text).val[i].address # FromStr(file.text).val[j].address

\* No peripheral of the latest scan is advertised as a lighthouse.
NoneClassified == \A p \in Range(peripherals) : ~Lighthouse(p)

\* C11 as stated: a --poweron/--standby dispatch or a SteamVR power event
\* whose fresh scan returned its list, classified no peripheral and came
\* back without a failure ends with status 3 and, under --json, with the
\* response success = false, error_code = 3; no write is issued.
C11_NoDevicesIsError ==
    (mode \in {"command", "steamvr"} /\ pipe \in {"fresh", "power"} /\ pc = "done"
        /\ listed /\ ret.ok /\ NoneClassified)
    => /\ exitCode = 3
       /\ json => results = <<[success |-> FALSE, devices |-> <<>>, error_code |-> 3]>>
       /\ writes = <<>>

\* C12: a --devices run with an empty cache or a --scan run whose scan came
\* back without a failure and classified no peripheral ends with status 0;
\* the response (always printed by --devices, under --json by --scan) is
\* success = true, error_code = 0; nothing is sent.
C12_EmptyScanIsSuccess ==
    (mode \in {"devices", "scan"} /\ pipe = "fresh" /\ pc = "done" /\ listed
        /\ ret.ok /\ NoneClassified)
    => /\ exitCode = 0
       /\ (mode = "devices" \/ json) =>
             (/\ Len(results) = 1
              /\ results[1].success
              /\ results[1].error_code = 0)
       /\ (mode = "scan" /\ ~json) => results = <<>>
       /\ sendLog = <<>> /\ writes = <<>>

\* A --devices run with no cache has scanned, seen one peripheral that is
\* no lighthouse, and ended.
C12_Witness ==
    /\ mode = "devices" /\ pc = "done"
    /\ peripherals = <<"p3">>
    /\ ret.ok
    /\ exitCode = 0
    /\ Len(results) = 1

\* The lines that are a y or Y between white space.
YesLines == { <<"y", NEWLINE>>, <<"Y", NEWLINE>>, <<" ", "y", "\r", NEWLINE>> }

\* The lighthouses of the latest scan, in the scan's order.
ClassifiedList == SelectSeq(peripherals, Lighthouse)

\* C13: a --poweron/--standby dispatch prompts at most once, and only
\* without --json, with a non-empty cache and no scanned peripheral with a
\* cached address.  A line read as y starts the fresh scan, and when that
\* scan comes back without a failure a send was attempted on each
\* lighthouse it classified; any other line ends the dispatch with status
\* 3, with no send, no write and the cache file untouched.
C13_PromptOnce ==
    /\ [](/\ prompts <= 1
          /\ pc = "cmd_prompt" =>
                (/\ mode = "command" /\ ~json /\ cached # <<>> /\ listed
                 /\ Matching = {} /\ prompts = 0)
          /\ prompts = 1 => (mode = "command" /\ ~json /\ cached # <<>>)
          /\ (prompts = 1 /\ pipe = "fresh" /\ pc = "done" /\ ret.ok) =>
                (/\ scans = 2
                 /\ [i \in 1..Len(sendLog) |-> sendLog[i].p] = ClassifiedList))
    /\ [][\A input \in PromptInputs :
            CmdPrompt(TRUE, input) =>
                IF input \in YesLines
                THEN pc' = "scan_acquire" /\ pipe' = "fresh" /\ prompts' = 1
                ELSE /\ pc' = "done" /\ exitCode' = 3 /\ prompts' = 1
                     /\ sendLog' = <<>> /\ writes' = <<>>
                     /\ saves' = 0 /\ file' = file0 /\ scans' = 1]_vars

\* The operator answered y; the rescan found a lighthouse and wrote to it.
C13_Witness ==
    /\ mode = "command" /\ prompts = 1 /\ pipe = "fresh" /\ pc = "done"
    /\ scans = 2
    /\ ret.ok
    /\ writes # <<>>

\* C14 as stated: at most one peripheral is connected at any time of a
\* batch, and when the loop turns to the next device every device whose
\* send ended in success, in "no writable characteristic" or in a failed
\* write has been disconnected.
C14_OneConnection ==
    /\ Cardinality(connected) <= 1
    /\ pc = "send_begin" =>
          \A i \in 1..Len(sendLog) :
              sendLog[i].outcome \in {"ok", "no_char", "write_err"}
                  => sendLog[i].p \notin connected

RECURSIVE Flatten(_, _)
\* The characteristics of the services from position i on, in service
\* order and then in characteristic order.
Flatten(S, i) ==
    IF i > Len(S) THEN <<>> ELSE S[i].characteristics \o Flatten(S, i + 1)

\* The characteristic supports write or write-without-response.
Writable(c) ==
    c.properties \cap {"WRITE", "WRITE_WITHOUT_RESPONSE"} # {}

\* The characteristic has the lighthouse uuid inside the lighthouse service.
ExactPair(c) ==
    c.uuid = LIGHTHOUSE_CHAR_UUID /\ c.service_uuid = LIGHTHOUSE_SERVICE_UUID

C16_FirstWritable ==
    LET all == Flatten(pure.services, 1)
    IN  (pure.spec = "gatt" /\ pure.selected
            /\ (\A k \in 1..Len(all) : ~ExactPair(all[k]))
            /\ (\E k \in 1..Len(all) : Writable(all[k])))
        => /\ pure.target # None
           /\ pure.target[1] = SelectSeq(all, Writable)[1]

\* C17 as stated: the send fails with "no writable characteristic" exactly
\* when no characteristic of any service supports write or
\* write-without-response, and then writes nothing; otherwise it attempts
\* exactly one write.
C17_NotFoundIffNoWritable ==
    LET all == Flatten(pure.services, 1)
    IN  (pure.spec = "gatt" /\ pure.result # None)
        => /\ pure.result = Some("no_char")
                <=> (\A k \in 1..Len(all) : ~Writable(all[k]))
           /\ pure.result = Some("no_char") => pure.writes = <<>>
           /\ pure.result # Some("no_char") => Len(pure.writes) = 1

\* C17: the send fails with "no writable characteristic" exactly when no
\* characteristic of any service has the lighthouse characteristic uuid or
\* supports write or write-without-response, and then it writes nothing;
\* otherwise it attempts exactly one write.
C17_NotFoundIffNoneUsable ==
    LET all == Flatten(pure.services, 1)
    IN  (pure.spec = "gatt" /\ pure.result # None)
        => /\ pure.result = Some("no_char")
                <=> (\A k \in 1..Len(all) :
                        all[k].uuid # LIGHTHOUSE_CHAR_UUID /\ ~Writable(all[k]))
           /\ pure.result = Some("no_char") => pure.writes = <<>>
           /\ pure.result # Some("no_char") => Len(pure.writes) = 1

\* Two services with characteristics, none of them usable: the send failed.
C17_Witness ==
    /\ pure.spec = "gatt" /\ pure.result = Some("no_char")
    /\ Len(pure.services) = 2
    /\ \A i \in 1..2 : pure.services[i].characteristics # <<>>
    /\ pure.writes = <<>>

\* C18 as stated: on each of the three scan paths the call of stop_scan,
\* failed or not, is followed by what follows a successful one: the cached
\* path goes on to the intersection, the power-event scan goes on to
\* classify, save and dispatch, and the fresh scan returns Ok.
C18_StopFailureNonFatal ==
    [][/\ pc = "cmd_stop_scan" => (pc' = "cmd_reconcile" /\ ret' = ret)
       /\ pc = "power_stop" => (pc' = "power_classify" /\ ret' = ret)
       /\ pc = "scan_stop" => ret'.ok]_vars

\* C19 as stated: when load_devices fails at the start of a command
\* dispatch or of --devices, the handler goes on as with an empty cache,
\* that is, to the fresh scan.
C19_LoadFailureIsEmptyCache ==
    [][\A o \in LoadOutcomes :
          ((CmdLoad(o) \/ DevLoad(o)) /\ ~LoadDevices(file, o).ok)
              => (pc' = "scan_acquire" /\ pipe' = "fresh")]_vars

\* The platform calls that leave the operation without an adapter.
NoAdapterOutcomes == {"manager_err", "adapters_err", "no_adapter"}

\* The operation is over with an error: a status other than 0 and, where a
\* response is printed, one with success false; an Err for the TUI and GUI.
ErrorEnd ==
    /\ pc = "done"
    /\ IF mode \in {"tui", "gui"} THEN ~ret.ok
       ELSE /\ exitCode > 0
            /\ json => Len(results) = 1
            /\ \A i \in 1..Len(results) : ~results[i].success

\* This invocation has sent nothing and has not touched the cache file.
Untouched ==
    sendLog = <<>> /\ writes = <<>> /\ saves = 0 /\ file = file0

\* C20: when no adapter is obtained or start_scan fails, the scan function
\* returns an Err (the cached path ends at once) with nothing sent and the
\* cache file as it was, and the handler that is given an Err ends the
\* operation with an error result without sending or saving anything.
C20_NoAdapterOrStartFailure ==
    [][/\ \A o \in NoAdapterOutcomes :
             /\ CmdAcquire(o) => (ErrorEnd' /\ Untouched')
             /\ (ScanAcquire(o) \/ PowerAcquire(o))
                    => (pc' = "finish" /\ ~ret'.ok /\ Untouched')
       /\ CmdStartScan(FALSE) => (ErrorEnd' /\ Untouched')
       /\ (ScanStartScan(FALSE) \/ PowerStartScan(FALSE))
              => (pc' = "finish" /\ ~ret'.ok /\ Untouched')
       /\ (pc = "finish" /\ ~ret.ok)
              => (/\ ErrorEnd'
                  /\ sendLog' = sendLog /\ writes' = writes
                  /\ saves' = saves /\ file' = file)]_vars

\* --poweron --json with an empty cache: start_scan failed, and the
\* operation ended with error_code 4, nothing written and the file as it was.
C20_Witness ==
    /\ mode = "command" /\ pipe = "fresh" /\ json /\ pc = "done"
    /\ prompts = 0 /\ scans = 1 /\ ~scanning /\ ~listed
    /\ ~ret.ok
    /\ exitCode = EXIT_COMMAND_FAILED
    /\ Len(results) = 1 /\ ~results[1].success
    /\ writes = <<>> /\ file = file0

\* C21 as stated: a --poweron/--standby dispatch that finds no adapter ends
\* with status and error_code 2, with a cache (the handler's own scan) and
\* without one (the fresh scan returns the Err, and the handler, given an
\* Err before any start_scan, ends the operation).
C21_NoAdapterIsBluetoothError ==
    [][/\ CmdAcquire("no_adapter")
            => (/\ pc' = "done" /\ exitCode' = EXIT_BLUETOOTH_ERROR
                /\ json => results' = <<ResponseError(EXIT_BLUETOOTH_ERROR)>>)
       /\ (mode = "command" /\ ScanAcquire("no_adapter"))
            => (pc' = "finish" /\ ~ret'.ok)
       /\ (mode = "command" /\ pc = "finish" /\ ~ret.ok /\ scans = 0)
            => (/\ pc' = "done" /\ exitCode' = EXIT_BLUETOOTH_ERROR
                /\ json => results' = <<ResponseError(EXIT_BLUETOOTH_ERROR)>>)]_vars

\* C22: every write of an invocation carries the one byte of the
\* invocation's command, which is 0x00 or 0x01 and does not change while the
\* invocation runs; with both --standby and --poweron the command is 0x01.
C22_OneCommandByte ==
    /\ [](\A i \in 1..Len(writes) :
             /\ writes[i].bytes = <<command>>
             /\ command \in {STANDBY_COMMAND, POWERON_COMMAND})
    /\ [][/\ pc \notin {"idle", "done"} => command' = command
          /\ \A js \in BOOLEAN :
                StartCommand(TRUE, TRUE, js) => command' = POWERON_COMMAND
          /\ \A js \in BOOLEAN :
                StartCommand(FALSE, TRUE, js) => command' = STANDBY_COMMAND]_vars

\* Two lighthouses were written to in one --poweron run, each with 0x01.
C22_Witness ==
    /\ mode = "command" /\ pc = "done"
    /\ command = POWERON_COMMAND
    /\ Len(writes) = 2
    /\ writes[1].p # writes[2].p
    /\ \A i \in 1..2 : writes[i].bytes = <<POWERON_COMMAND>>

\* C23 as stated: under --json a --poweron/--standby or SteamVR-event
\* invocation that is over has printed exactly one response, whose
\* error_code is the exit status, and non-zero with success false whenever
\* the invocation failed.
C23_OneResultRecord ==
    (json /\ mode \in {"command", "steamvr"} /\ pc = "done")
    => /\ Len(results) = 1
       /\ results[1].error_code = exitCode
       /\ results[1].success <=> exitCode = EXIT_SUCCESS

\* C24 as stated: once both concurrent saves have returned, the file holds
\* exactly the text of the list whose save returned last, and a load that
\* follows returns that list.
C24_LastWriterWins ==
    (\A i \in Savers : pure.at[i] = "done")
    => /\ file = SaveFile(NoFile, pure.D[pure.last], "ok")
       /\ pure.loaded # None => pure.loaded[1] = Ok(pure.D[pure.last])

\* The platform calls of a complete send, in their order; connect is left
\* out when the peripheral was connected already.
SendOrder(connected0) ==
    <<"properties", "is_connected">>
        \o (IF connected0 THEN <<>> ELSE <<"connect">>)
        \o <<"discover_services", "write", "disconnect">>

\* C25: the platform calls of one send are always a beginning of the
\* sequence connect (unless connected already), discover_services, write,
\* disconnect; the characteristic is chosen between discover_services and
\* the write; there is at most one write, it is a write-without-response of
\* the one command byte, and it is made on a connected peripheral whose
\* services were discovered in this send.
C25_SendOrder ==
    LET order == SendOrder(pure.connected0)
    IN  /\ \E k \in 0..Len(order) : pure.calls = SubSeq(order, 1, k)
        /\ pure.target # None =>
              \E k \in 1..Len(pure.calls) : pure.calls[k] = "discover_services"
        /\ Len(pure.writes) <= 1
        /\ \A i \in 1..Len(pure.writes) :
              /\ pure.writes[i].bytes = <<pure.command>>
              /\ pure.writes[i].write_type = "WithoutResponse"
              /\ pure.writes[i].conn
              /\ pure.target # None
              /\ pure.writes[i].char = pure.target[1].uuid
        /\ pure.result = Some("ok") => (pure.calls = order /\ ~pure.conn)

\* A send to a peripheral that was not connected made all six calls.
C25_Witness ==
    /\ pure.spec = "send" /\ ~pure.connected0
    /\ pure.result = Some("ok")
    /\ pure.calls = <<"properties", "is_connected", "connect",
                      "discover_services", "write", "disconnect">>
    /\ Len(pure.writes) = 1

\* C26 as stated: no step writes a command or creates the cache file while
\* the scan that this invocation started is running.
C26_StoppedBeforeActing ==
    [][(writes' # writes \/ saves' # saves) => ~scanning]_vars

\* The places of the latest scan's list at which p stands.
ScanPlaces(p) == {k \in 1..Len(peripherals) : peripherals[k] = p}

\* C27: the batch is in the order of the scan's list; the sends are logged
\* in that order with no device left out, whatever the outcomes before; and
\* a send begins only when every earlier send of the batch has ended.  (The
\* log is emptied only by the start of the next invocation.)
C27_DiscoveryOrder ==
    /\ [](/\ \A i, j \in 1..Len(targets) :
                i < j => \E a \in ScanPlaces(targets[i]), b \in ScanPlaces(targets[j]) :
                            a < b
          /\ \A i \in 1..Len(sendLog) : sendLog[i].p = targets[i]
          /\ pc \in SendPlaces => idx = Len(sendLog) + 1)
    /\ [][/\ (sendLog' # sendLog /\ pc # "done") =>
                (/\ pc \in SendPlaces
                 /\ Len(sendLog') = Len(sendLog) + 1
                 /\ SubSeq(sendLog', 1, Len(sendLog)) = sendLog
                 /\ sendLog'[Len(sendLog')].p = targets[idx])
          /\ (pc \in SendPlaces /\ pc' = "send_begin") =>
                (idx' = idx + 1 /\ Len(sendLog') = idx)]_vars

\* The scan listed p2 before p1; the send to p2 failed and the send to p1
\* came after it and succeeded.
C27_Witness ==
    /\ peripherals = <<"p2", "p1">>
    /\ targets = <<"p2", "p1">>
    /\ Len(sendLog) = 2
    /\ sendLog[1] = [p |-> "p2", outcome |-> "no_char"]
    /\ sendLog[2] = [p |-> "p1", outcome |-> "ok"]

\* The record of an advertised peripheral: its local name and its address.
RecordOf(p) ==
    [name |-> PeripheralProperties(p)[1].local_name[1],
     address |-> PeripheralAddress(p)]

\* C28: when a fresh scan has classified a non-empty list and its save
\* succeeds, a load of the file returns one record for each classified
\* peripheral, in the scan's order, and nothing else, whatever the file
\* held before.
C28_SaveReplacesCache ==
    [][(ScanProcess(TRUE, "ok") /\ ClassifiedList # <<>>)
          => LoadDevices(file', "ok")
                = Ok([i \in 1..Len(ClassifiedList) |-> RecordOf(ClassifiedList[i])])]_vars

\* The cache held p2 alone; a --scan --json that saw p1 alone has replaced
\* it, and reports the one record of p1.
C28_Witness ==
    /\ mode = "scan" /\ json /\ pc = "done"
    /\ file0.exists /\ FromStr(file0.text) = Ok(<<RecordOf("p2")>>)
    /\ ClassifiedList = <<"p1">>
    /\ saves = 1
    /\ FromStr(file.text) = Ok(<<RecordOf("p1")>>)
    /\ Len(results) = 1 /\ results[1].devices = <<RecordOf("p1")>>

\* C29 as stated: the devices of every success response of a
\* --poweron/--standby or SteamVR-event invocation are the records of
\* exactly the peripherals a send was attempted on in that invocation.
C29_DevicesAreAttempted ==
    (mode \in {"command", "steamvr"} /\ pc = "done" /\ results # <<>>
        /\ results[1].success)
    => Range(results[1].devices) = {RecordOf(q) : q \in Attempted}

\* C30: read_line is called only by --poweron/--standby without --json,
\* with a non-empty cache, after a scan that listed its peripherals, none
\* of which has a cached address; every other invocation ends without a
\* prompt.
C30_PromptOnlyOnEmptyIntersection ==
    /\ [](/\ pc = "cmd_prompt" =>
                (/\ mode = "command" /\ ~json /\ cached # <<>>
                 /\ listed /\ scans = 1 /\ Matching = {} /\ targets = <<>>)
          /\ (json \/ mode # "command" \/ cached = <<>>) => prompts = 0)
    /\ [][prompts' > prompts =>
             (/\ pc = "cmd_prompt" /\ ~json /\ cached # <<>> /\ listed
              /\ Matching = {}
              /\ prompts' = prompts + 1)]_vars

\* A --poweron without --json is at the prompt: the cache holds a device and
\* the scan listed another one.
C30_Witness ==
    /\ pc = "cmd_prompt" /\ mode = "command" /\ ~json
    /\ cached # <<>>
    /\ peripherals # <<>>
    /\ Matching = {}
    /\ prompts = 0

(***************************************************************************)
(* The CLI dispatch alone, with every platform call returning and the      *)
(* operator answering: handle_device_command_mode and what it calls.       *)
(***************************************************************************)
\* One step of handle_device_command_mode, of the fresh scan it may call, or
\* of the batch loop.
DispatchStep ==
    \/ \E o \in LoadOutcomes : CmdLoad(o)
    \/ \E o \in AcquireOutcomes : CmdAcquire(o)
    \/ \E ok \in BOOLEAN : CmdStartScan(ok)
    \/ \E ok \in BOOLEAN, l \in ScanLists : CmdPeripherals(ok, l)
    \/ \E ok \in BOOLEAN : CmdStopScan(ok)
    \/ CmdReconcile
    \/ \E ok \in BOOLEAN, input \in PromptInputs : CmdPrompt(ok, input)
    \/ CmdReport
    \/ \E o \in LoadOutcomes : CmdFresh(o)
    \/ \E o \in AcquireOutcomes : ScanAcquire(o)
    \/ \E ok \in BOOLEAN : ScanStartScan(ok)
    \/ \E ok \in BOOLEAN, l \in ScanLists : ScanPeripherals(ok, l)
    \/ \E ok \in BOOLEAN, o \in SaveOutcomes : ScanProcess(ok, o)
    \/ \E ok \in BOOLEAN : ScanStopScan(ok)
    \/ \E ok \in BOOLEAN : SendConnect(ok)
    \/ \E ok \in BOOLEAN : SendDiscover(ok)
    \/ \E ok \in BOOLEAN : SendWrite(ok)
    \/ \E ok \in BOOLEAN : SendDisconnect(ok)

NextDispatch ==
    \/ \E poweron_mode, standby_mode, js \in BOOLEAN :
          StartCommand(poweron_mode, standby_mode, js)
    \/ DispatchStep

\* The same steps as DispatchStep.  The steps named first are outcomes that
\* do not read or write the text of the file, so that whether a step can be
\* taken is decided without parsing it.
DispatchReturns ==
    \/ CmdLoad("path_err")
    \/ CmdFresh("path_err")
    \/ \E ok \in BOOLEAN : ScanProcess(ok, "path_err")
    \/ DispatchStep

\* Every await returns and read_line returns: a step that can be taken is taken.
SpecDispatch == Init /\ [][NextDispatch]_vars /\ WF_vars(DispatchReturns)

\* C31: every dispatch invocation terminates; it starts at most two scans, the
\* second only on the fresh path an affirmative answer to the one prompt leads
\* to; it prompts at most once; no scan and no send is tried again, and a
\* batch attempts each peripheral at most once.
C31_Terminates ==
    /\ [](/\ scans <= 2
          /\ prompts <= 1
          /\ scans = 2 => (prompts = 1 /\ pipe = "fresh")
          /\ Len(sendLog) <= Len(targets)
          /\ \A i, j \in 1..Len(sendLog) : sendLog[i].p = sendLog[j].p => i = j
          /\ \A i, j \in 1..Len(writes) : writes[i].p = writes[j].p => i = j)
    /\ (pc \notin {"idle", "done"}) ~> (pc = "done")

C31_Witness ==
    /\ mode = "command" /\ pc = "done"
    /\ scans = 2 /\ prompts = 1
    /\ Len(sendLog) = MaxScan
    /\ \E i \in 1..Len(sendLog) : sendLog[i].outcome # "ok"

(***************************************************************************)
(* The same CLI dispatch run again and again while the same peripherals    *)
(* stay visible, every platform call succeeds and the operator gives the   *)
(* same answer.                                                            *)
(***************************************************************************)
\* Cache files a fresh scan or clear_saved_devices has written.
TwiceFiles ==
    {NoFile} \cup
    {SaveFile(NoFile, DeviceInfoList(LighthouseStations(l)), "ok") : l \in ScanLists}

\* What a finished invocation leaves: the bytes each device received, and the
\* cache file.
Footprint == [sent |-> {<<writes[i].p, writes[i].bytes>> : i \in 1..Len(writes)},
              file |-> file]

InitTwice ==
    /\ NotStarted
    /\ file \in TwiceFiles
    /\ \E l \in ScanLists, input \in PromptInputs, poweron_mode, standby_mode,
          js \in BOOLEAN :
          /\ CommandMode(poweron_mode, standby_mode) # NO_COMMAND
          /\ pure = [spec |-> "twice", visible |-> Range(l), input |-> input,
                     poweron_mode |-> poweron_mode, standby_mode |-> standby_mode,
                     json |-> js, runs |-> 0, prev |-> None]

\* The invocation: the same flags every time.
TwiceStart ==
    /\ pc = "idle"
    /\ StartCommand(pure.poweron_mode, pure.standby_mode, pure.json)

\* The process has ended; what it left is kept for the comparison.
TwiceEnd ==
    /\ pc = "done"
    /\ pc' = "idle"
    /\ pure' = [pure EXCEPT !.runs = IF @ < 2 THEN @ + 1 ELSE @,
                            !.prev = Some(Footprint)]
    /\ UNCHANGED <<file, ctlVars, cached, scanVars, batchVars, infoList, ret,
                   ioVars, saves, file0>>

NextTwice ==
    \/ TwiceStart
    \/ TwiceEnd
    \/ CmdLoad("ok")
    \/ CmdAcquire("ok")
    \/ CmdStartScan(TRUE)
    \/ \E l \in ScanLists : Range(l) = pure.visible /\ CmdPeripherals(TRUE, l)
    \/ CmdStopScan(TRUE)
    \/ CmdReconcile
    \/ CmdPrompt(TRUE, pure.input)
    \/ CmdReport
    \/ CmdFresh("ok")
    \/ ScanAcquire("ok")
    \/ ScanStartScan(TRUE)
    \/ \E l \in ScanLists : Range(l) = pure.visible /\ ScanPeripherals(TRUE, l)
    \/ ScanProcess(TRUE, "ok")
    \/ ScanStopScan(TRUE)
    \/ SendConnect(TRUE)
    \/ SendDiscover(TRUE)
    \/ SendWrite(TRUE)
    \/ SendDisconnect(TRUE)

SpecTwice == InitTwice /\ [][NextTwice]_vars

C33_CachedPathKeepsCache ==
    (mode = "command" /\ pipe = "cached") => (saves = 0 /\ file = file0)

C33_Witness ==
    /\ mode = "command" /\ pipe = "cached" /\ pc = "done"
    /\ Len(cached) = MaxList
    /\ Len(sendLog) = 2
    /\ sendLog[1].outcome = "write_err" /\ sendLog[2].outcome = "ok"
    /\ file = file0

\* C34 as stated, in the case it names last: after a successful scan-and-cache
\* (--scan, the GUI's scan_for_devices, the TUI's r key) whose scan classified
\* no lighthouse, the cache holds no device and the returned list is empty.
C34_EmptyScanEmptiesCache ==
    (/\ mode \in {"scan", "gui", "tui"} /\ command = NO_COMMAND /\ pipe = "fresh"
     /\ pc = "done" /\ ret.ok /\ listed /\ NoneClassified)
    => /\ UnwrapOrDefault(LoadDevices(file, "ok")) = <<>>
       /\ mode \in {"gui", "tui"} => ret.val = <<>>
       /\ (mode = "scan" /\ json) => results[Len(results)].devices = <<>>

\* C35: on the fresh-scan and power-event paths a save that fails does not
\* end the function: the batch starts on every classified device; and a
\* dispatch that has ended with classified devices and without their list in
\* the cache file (and, on the fresh path, with the scan stopped) attempted a
\* send on each of them and reported success with status 0.
C35_SaveFailureNotFatal ==
    /\ [][\A o \in SaveOutcomes \ {"ok"} :
            /\ (/\ ScanProcess(TRUE, o)
                /\ LighthouseStations(peripherals) # <<>>
                /\ command # NO_COMMAND)
               => (/\ pc' = "send_begin"
                   /\ targets' = LighthouseStations(peripherals)
                   /\ ret' = ret)
            /\ (PowerClassify(o) /\ LighthouseDevices(peripherals) # <<>>)
               => (/\ pc' = "send_begin"
                   /\ targets' = LighthouseDevices(peripherals)
                   /\ ret' = ret)]_vars
    /\ []((/\ mode \in {"command", "steamvr"} /\ pipe \in {"fresh", "power"}
           /\ pc = "done" /\ targets # <<>>
           /\ ~(file.exists /\ file.text = ToStringPretty(infoList))
           /\ pipe = "fresh" => ~scanning)
          => /\ Attempted = Range(targets)
             /\ Range(targets) = {p \in Range(peripherals) : Lighthouse(p)}
             /\ exitCode = EXIT_SUCCESS
             /\ \A i \in 1..Len(results) : results[i].success)

C35_Witness ==
    /\ mode = "command" /\ pipe = "fresh" /\ json /\ pc = "done"
    /\ Len(targets) = 2
    /\ Attempted = Range(targets)
    /\ file0 = NoFile /\ file = NoFile
    /\ exitCode = EXIT_SUCCESS
    /\ Len(results) = 1 /\ results[1].success

(***************************************************************************)
(* One save_devices and one load_devices on the same cache file, in two    *)
(* processes: the steps of the save interleave with the load.              *)
(***************************************************************************)
InitRace ==
    /\ NotStarted
    /\ \E f \in {NoFile} \cup {SaveFile(NoFile, D, "ok") : D \in SaverLists},
          D \in SaverLists :
          /\ file = f
          /\ pure = [spec |-> "race", before |-> f, D |-> D, at |-> "create",
                     loaded |-> None]

\* config/mod.rs:31-38 in the saving process: the path, the text, File::create.
RaceCreate ==
    /\ pure.at = "create"
    /\ file' = FileCreate(file)
    /\ pure' = [pure EXCEPT !.at = "write"]
    /\ UNCHANGED runVars

\* config/mod.rs:39-41 in the saving process: write_all and Ok(()).
RaceWrite ==
    /\ pure.at = "write"
    /\ file' = FileWriteAll(file, ToStringPretty(pure.D))
    /\ pure' = [pure EXCEPT !.at = "done"]
    /\ UNCHANGED runVars

\* config/mod.rs:48-65 in the loading process, before, between or after the
\* steps of the save.
RaceLoad ==
    /\ pure.loaded = None
    /\ pure' = [pure EXCEPT !.loaded = Some(LoadDevices(file, "ok"))]
    /\ file' = LoadFile(file, "ok")
    /\ UNCHANGED runVars

NextRace == RaceCreate \/ RaceWrite \/ RaceLoad

SpecRace == InitRace /\ [][NextRace]_vars

\* C36 as stated: a load that runs while the file is being saved returns Ok
\* with the list the file held before the save or with the list being saved.
C36_LoadSeesOldOrNew ==
    pure.loaded # None =>
        pure.loaded[1] \in {LoadDevices(pure.before, "ok"), Ok(pure.D)}

\* C37: in every response the CLI has printed, success holds exactly when
\* error_code is 0, and a response with success = false lists no device.
C37_ResultContract ==
    \A i \in 1..Len(results) :
        /\ results[i].success <=> (results[i].error_code = 0)
        /\ ~results[i].success => results[i].devices = <<>>

C37_Witness ==
    /\ mode = "command" /\ json /\ pc = "done"
    /\ cached # <<>> /\ sendLog = <<>>
    /\ results = <<[success |-> FALSE, devices |-> <<>>,
                    error_code |-> EXIT_NO_DEVICES_FOUND]>>

(***************************************************************************)
(* main: one CLI invocation with its arguments, from the flags to the end  *)
(* of the handler they select.                                             *)
(***************************************************************************)
\* cli/mod.rs:9-21: the arguments main looks for.
Flags == {"--standby", "--poweron", "--scan", "--devices", "--json", "--help",
          "--tui", "--register-steamvr", "--unregister-steamvr",
          "--steamvr-started", "--steamvr-stopped"}

\* The cache file the invocation finds: none, or one saved record.
MainFiles == {NoFile, SaveFile(NoFile, DeviceInfoList(<<"p1">>), "ok")}

InitMain ==
    /\ NotStarted
    /\ file \in MainFiles
    /\ \E args \in SUBSET Flags : pure = [spec |-> "args", args |-> args]

\* main.rs:34-136: the flags, then the first branch whose flag is present.
\* args holds the arguments after the program's name.
Main(args) ==
    LET json_output == "--json" \in args
    IN  IF "--help" \in args \/ args = {}
        THEN Begin("help", "none", json_output, NO_COMMAND) /\ pc' = "help"
        ELSE IF "--tui" \in args
        THEN Begin("tui", "none", json_output, NO_COMMAND) /\ pc' = "run_tui"
        ELSE IF "--devices" \in args
        THEN StartDevices(json_output)
        ELSE IF "--register-steamvr" \in args
        THEN Begin("register", "none", json_output, NO_COMMAND) /\ pc' = "registration"
        ELSE IF "--unregister-steamvr" \in args
        THEN Begin("unregister", "none", json_output, NO_COMMAND) /\ pc' = "registration"
        ELSE IF "--steamvr-started" \in args
        THEN StartSteamvr(POWERON_COMMAND, json_output)
        ELSE IF "--steamvr-stopped" \in args
        THEN StartSteamvr(STANDBY_COMMAND, json_output)
        ELSE IF "--scan" \in args
        THEN StartScan(json_output)
        ELSE IF CommandMode("--poweron" \in args, "--standby" \in args) # NO_COMMAND
        THEN StartCommand("--poweron" \in args, "--standby" \in args, json_output)
        ELSE Begin("none", "none", json_output, NO_COMMAND) /\ pc' = "main_return"

MainStart == pc = "idle" /\ Main(pure.args)

\* main.rs:50-58: the help text, or the "help" response under --json.
MainHelp ==
    /\ pc = "help"
    /\ PrintIfJson(ResponseSuccess(<<>>))
    /\ Exit(EXIT_SUCCESS)
    /\ UNCHANGED <<file, ctlVars, cached, scanVars, batchVars, infoList, ret,
                   prompts, saves, file0, pure>>

\* main.rs:61-66: tui::run_tui() until the operator quits, or its Err.
MainTui(ok) ==
    /\ pc = "run_tui"
    /\ Exit(IF ok THEN EXIT_SUCCESS ELSE EXIT_GENERAL_ERROR)
    /\ UNCHANGED <<file, ctlVars, cached, scanVars, batchVars, infoList, ret,
                   results, prompts, saves, file0, pure>>

\* main.rs:193-247: handle_steamvr_registration / _unregistration.
MainRegistration(ok) ==
    /\ pc = "registration"
    /\ IF ok
       THEN PrintIfJson(ResponseSuccess(<<>>)) /\ Exit(EXIT_SUCCESS)
       ELSE PrintIfJson(ResponseError(EXIT_STEAMVR_ERROR)) /\ Exit(EXIT_STEAMVR_ERROR)
    /\ UNCHANGED <<file, ctlVars, cached, scanVars, batchVars, infoList, ret,
                   prompts, saves, file0, pure>>

\* main.rs:132-136: command_mode is 0xFF, no handler is called, Ok(()).
MainReturn ==
    /\ pc = "main_return"
    /\ Exit(EXIT_SUCCESS)
    /\ UNCHANGED <<file, ctlVars, cached, scanVars, batchVars, infoList, ret,
                   results, prompts, saves, file0, pure>>

NextMain ==
    \/ MainStart
    \/ MainHelp
    \/ \E ok \in BOOLEAN : MainTui(ok)
    \/ \E ok \in BOOLEAN : MainRegistration(ok)
    \/ MainReturn
    \/ DispatchStep
    \/ \E o \in AcquireOutcomes : PowerAcquire(o)
    \/ \E ok \in BOOLEAN : PowerStartScan(ok)
    \/ \E ok \in BOOLEAN, l \in ScanLists : PowerPeripherals(ok, l)
    \/ \E ok \in BOOLEAN : PowerStopScan(ok)
    \/ \E o \in SaveOutcomes : PowerClassify(o)
    \/ PowerReturn
    \/ \E o \in LoadOutcomes : DevLoad(o)
    \/ \E o \in LoadOutcomes : DevAfterScan(o)
    \/ \E o \in LoadOutcomes : ScanAfterScan(o)
    \/ \E o \in LoadOutcomes : SteamvrAfter(o)

SpecMain == InitMain /\ [][NextMain]_vars

\* The handlers of main.
ModeHandlers == {"help", "tui", "devices", "register", "unregister", "steamvr",
                 "scan", "command"}

\* C38 as stated: every invocation runs one of the mode handlers, and an
\* invocation in which --devices or --scan is the handler chosen has issued
\* no send and no write, whatever --poweron or --standby it carries.
C38_ExactlyOneHandler ==
    pc # "idle" =>
        /\ mode \in ModeHandlers
        /\ mode \in {"devices", "scan"} => (sendLog = <<>> /\ writes = <<>>)

(***************************************************************************)
(* The TUI: AppState and the event loop of run_app, with the scans its     *)
(* keys start.                                                             *)
(***************************************************************************)
\* tui.rs:46-55: AppState::new(); the initial load has not run yet.
InitTui ==
    /\ NotStarted
    /\ file \in MainFiles
    /\ pure = [spec |-> "tui", at |-> "start", devices |-> <<>>, selected |-> 0]

\* tui.rs:59-71: the initial load from the cache.
TuiInitialLoad(outcome) ==
    /\ pure.at = "start"
    /\ LET r == LoadDevices(file, outcome)
       IN  pure' = [pure EXCEPT !.at = "loop",
                                !.devices = IF r.ok THEN r.val ELSE @]
    /\ file' = LoadFile(file, outcome)
    /\ UNCHANGED runVars

\* tui.rs:158-166: KeyCode::Up.
TuiUp ==
    /\ pure.at = "loop" /\ pc = "idle"
    /\ pure' = [pure EXCEPT !.selected =
                    IF pure.devices = <<>> THEN @
                    ELSE IF @ = 0 THEN Len(pure.devices) - 1 ELSE @ - 1]
    /\ UNCHANGED <<file, runVars>>

\* Down that does not wrap around.
TuiDownNoWrap ==
    /\ pure.at = "loop" /\ pc = "idle"
    /\ pure' = [pure EXCEPT !.selected = IF pure.devices = <<>> THEN @ ELSE @ + 1]
    /\ UNCHANGED <<file, runVars>>

\* tui.rs:167-171: KeyCode::Down.
TuiDown ==
    /\ pure.at = "loop" /\ pc = "idle"
    /\ pure' = [pure EXCEPT !.selected =
                    IF pure.devices = <<>> THEN @ ELSE (@ + 1) % Len(pure.devices)]
    /\ UNCHANGED <<file, runVars>>

\* tui.rs:172-205: the keys r, p and s call the fresh scan.
TuiKey(cmd) ==
    /\ pure.at = "loop" /\ pc = "idle"
    /\ StartTui(cmd)

\* tui.rs:176-204: the match on what the key's calls returned; on r, a
\* loaded list replaces devices and selected becomes 0.
TuiApply ==
    /\ pc = "done" /\ mode = "tui"
    /\ pc' = "idle"
    /\ pure' = IF command = NO_COMMAND /\ ret.ok
               THEN [pure EXCEPT !.devices = ret.val, !.selected = 0]
               ELSE pure
    /\ UNCHANGED <<file, ctlVars, cached, scanVars, batchVars, infoList, ret,
                   ioVars, saves, file0>>

NextTui ==
    \/ \E o \in LoadOutcomes : TuiInitialLoad(o)
    \/ TuiUp
    \/ TuiDown
    \/ \E cmd \in Commands \cup {NO_COMMAND} : TuiKey(cmd)
    \/ TuiApply
    \/ \E o \in AcquireOutcomes : ScanAcquire(o)
    \/ \E ok \in BOOLEAN : ScanStartScan(ok)
    \/ \E ok \in BOOLEAN, l \in ScanLists : ScanPeripherals(ok, l)
    \/ \E ok \in BOOLEAN, o \in SaveOutcomes : ScanProcess(ok, o)
    \/ \E ok \in BOOLEAN : ScanStopScan(ok)
    \/ \E ok \in BOOLEAN : SendConnect(ok)
    \/ \E ok \in BOOLEAN : SendDiscover(ok)
    \/ \E ok \in BOOLEAN : SendWrite(ok)
    \/ \E ok \in BOOLEAN : SendDisconnect(ok)
    \/ \E o \in LoadOutcomes : TuiAfter(o)

SpecTui == InitTui /\ [][NextTui]_vars

\* C39: in the TUI, whatever keys were pressed and whatever the scans and
\* loads returned, selected is below the length of a non-empty device list,
\* and a rescan whose scan and load succeeded leaves selected = 0.
C39_SelectionInRange ==
    /\ [](pure.devices # <<>> => pure.selected < Len(pure.devices))
    /\ [][(pc = "done" /\ mode = "tui" /\ command = NO_COMMAND /\ ret.ok
             /\ pc' = "idle")
          => (pure'.selected = 0 /\ pure'.devices = ret.val)]_vars

C39_Witness ==
    /\ pure.at = "loop" /\ pc = "idle"
    /\ mode = "tui" /\ command = NO_COMMAND /\ ret.ok
    /\ pure.devices = ret.val
    /\ Len(pure.devices) = 2
    /\ pure.selected = 1

=============================================================================
